---------------------------- MODULE Spec2Model ----------------------------
(* Model of the multi-agent retrieval pipeline of drugBotFinal:           *)
(* supervisor, document retriever, cross-document agent, QA agent and     *)
(* source tracker, all operating on one shared request-state dictionary.  *)
(*                                                                        *)
(* Python strings are TLA+ strings (TLC evaluates Len, Head, Tail, SubSeq *)
(* and \o on them).  The three Turkish letters outside Latin-1 are        *)
(* written with Latin-1 stand-ins: dotless i as "î", s-cedilla as "þ",    *)
(* soft g as "ð".  A Python dict is a function whose DOMAIN is the set of *)
(* keys present.                                                          *)
EXTENDS Integers, Sequences, FiniteSets, TLC

VARIABLES
    state,          \* the request state dict handed from agent to agent
    prev,           \* the request state before the last call (history)
    pc,             \* harness position: idle, supervisor, an agent, __end__, aborted, direct
    executed,       \* names of the agents whose execute has been entered, in order
    goto,           \* the last Command(goto=...) returned by the supervisor
    raised,         \* TRUE when the last call left by an exception
    search_log,     \* the search_documents calls of the last retriever call: <<query, k>>
    llm_calls,      \* number of llm.invoke calls made by the last call
    grant_groups,   \* the last value returned by _extract_grant_groups
    relevant,       \* the last value returned by _is_query_relevant ("none" before)
    index_answers,  \* what the index answers to each search of a direct retriever call
    llm_log,        \* the llm.invoke calls of the last call and what the LLM answered
    twin,           \* the state of a second request handed to the same agent
    performance_tracker, \* the global PerformanceMonitor: stats, active and completed queries
    requests        \* the /search requests of the web application, one thread each

vars == <<state, prev, pc, executed, goto, raised, search_log, llm_calls,
          grant_groups, relevant, index_answers, llm_log,
          twin, performance_tracker, requests>>

-----------------------------------------------------------------------------
(* Bounds of the model.                                                    *)

MaxDocs == 3        \* longest document list handed to an agent directly
MaxHits == 2        \* longest result list one search call returns
MaxCalls == 2       \* direct calls of one agent in a row
MaxWords == 3       \* most words of a text handed to _detect_language directly
MaxRequests == 3   \* /search requests handled concurrently by the web application

-----------------------------------------------------------------------------
(* Python built-ins.                                                       *)

\* dict.get(key, default)
Get(d, k, default) == IF k \in DOMAIN d THEN d[k] ELSE default

\* d[k] = v  (insert or overwrite)
Put(d, k, v) == (k :> v) @@ d

\* F(e) with e evaluated once, before F is entered (a local variable assignment)
With(F(_), e) == CHOOSE y \in {F(x) : x \in {e}} : TRUE

UpperAlpha == "ABCDEFGHIJKLMNOPQRSTUVWXYZ"
LowerAlpha == "abcdefghijklmnopqrstuvwxyz"
Digits == "0123456789"

Char(s, i) == SubSeq(s, i, i)

\* the characters of s, as a set
CharsOf(s) == {Char(s, i) : i \in 1..Len(s)}

\* the case tables of the ASCII letters
LowerOf == [c \in CharsOf(UpperAlpha) |->
              Char(LowerAlpha, CHOOSE i \in 1..26 : Char(UpperAlpha, i) = c)]
UpperOf == [c \in CharsOf(LowerAlpha) |->
              Char(UpperAlpha, CHOOSE i \in 1..26 : Char(LowerAlpha, i) = c)]
DigitChars == CharsOf(Digits)

LowerChar(c) == IF c \in DOMAIN LowerOf THEN LowerOf[c] ELSE c
UpperChar(c) == IF c \in DOMAIN UpperOf THEN UpperOf[c] ELSE c

(* The string methods are functions on STRING: a function is applied to the *)
(* value of its argument, as a Python method is.                            *)

\* str.lower(), character by character (the string is halved to keep the recursion flat)
Lower[s \in STRING] ==
    IF Len(s) = 0 THEN ""
    ELSE IF Len(s) = 1 THEN LowerChar(s)
    ELSE Lower[SubSeq(s, 1, Len(s) \div 2)] \o Lower[SubSeq(s, (Len(s) \div 2) + 1, Len(s))]

\* str.upper()
Upper[s \in STRING] ==
    IF Len(s) = 0 THEN ""
    ELSE IF Len(s) = 1 THEN UpperChar(s)
    ELSE Upper[SubSeq(s, 1, Len(s) \div 2)] \o Upper[SubSeq(s, (Len(s) \div 2) + 1, Len(s))]

IsSpace(c) == c \in {" ", "\t", "\n"}
IsDigit(c) == c \in DigitChars

\* `p in s` for strings: substring test
Contains[s \in STRING, p \in STRING] ==
    \E i \in 1..(Len(s) - Len(p) + 1) : SubSeq(s, i, i + Len(p) - 1) = p

\* s[:n]
Prefix[s \in STRING, n \in Nat] == IF Len(s) <= n THEN s ELSE SubSeq(s, 1, n)

LStrip[s \in STRING] == IF s # "" /\ IsSpace(Head(s)) THEN LStrip[Tail(s)] ELSE s

RStrip[s \in STRING] ==
    IF s # "" /\ IsSpace(Char(s, Len(s))) THEN RStrip[SubSeq(s, 1, Len(s) - 1)] ELSE s

\* str.strip()
Strip[s \in STRING] == RStrip[LStrip[s]]

\* the words of s, `cur` being the word read so far
SplitFrom[s \in STRING, cur \in STRING] ==
    IF s = "" THEN (IF cur = "" THEN <<>> ELSE <<cur>>)
    ELSE IF IsSpace(Head(s))
         THEN (IF cur = "" THEN <<>> ELSE <<cur>>) \o SplitFrom[Tail(s), ""]
         ELSE SplitFrom[Tail(s), cur \o Head(s)]

\* str.split(): the maximal runs of non-whitespace characters
Split[s \in STRING] == SplitFrom[s, ""]

\* str.replace(old, ''): delete every non-overlapping occurrence, left to right
ReplaceAll[s \in STRING, old \in STRING] ==
    IF Len(s) < Len(old) \/ s = "" THEN s
    ELSE IF SubSeq(s, 1, Len(old)) = old
         THEN ReplaceAll[SubSeq(s, Len(old) + 1, Len(s)), old]
         ELSE Head(s) \o ReplaceAll[Tail(s), old]

\* the elements of a list, as a set
Range(seq) == {seq[i] : i \in 1..Len(seq)}

\* the lists over S of length at most n
ListsUpTo(S, n) == UNION {[1..m -> S] : m \in 0..n}

\* a page value as Python sees it: an int, a str or None
PyInt(n) == [kind |-> "int", n |-> n, s |-> ""]
PyStr(s) == [kind |-> "str", n |-> 0, s |-> s]
PyNone == [kind |-> "none", n |-> 0, s |-> ""]

\* bool(v)
Truthy(v) == \/ v.kind = "int" /\ v.n # 0
             \/ v.kind = "str" /\ v.s # ""

RECURSIVE NatToStr(_)
NatToStr(n) == IF n < 10 THEN Char(Digits, n + 1)
               ELSE NatToStr(n \div 10) \o Char(Digits, (n % 10) + 1)

\* str(v), as an f-string formats it
PyToStr(v) == IF v.kind = "int" THEN NatToStr(v.n)
              ELSE IF v.kind = "str" THEN v.s ELSE "None"

-----------------------------------------------------------------------------
(* Request state (memory/state_manager.py).                                *)

Flags == {"retrieval_performed", "cross_document_performed", "qa_performed",
          "source_tracking_performed"}

\* MultiAgentState(query=query, session_id=session_id): every field at its default
initialize_state(query) ==
    [k \in {"query", "detected_language", "retrieved_documents", "qa_response",
            "sources", "cited_response", "cross_document_analysis"} \cup Flags |->
        CASE k = "query" -> query
          [] k = "detected_language" -> "tr"
          [] k = "retrieved_documents" -> <<>>
          [] k = "qa_response" -> ""
          [] k = "sources" -> <<>>
          [] k = "cited_response" -> ""
          [] k = "cross_document_analysis" -> [x \in {} |-> ""]
          [] OTHER -> FALSE]

\* faulty variant: the cross-document flag is not consulted
IsWorkflowCompleteThreeFlags(st) ==
    st["retrieval_performed"] /\ st["qa_performed"] /\ st["source_tracking_performed"]

\* StateManager.is_workflow_complete
is_workflow_complete(st) ==
    st["retrieval_performed"] /\ st["qa_performed"]
        /\ st["source_tracking_performed"] /\ st["cross_document_performed"]

-----------------------------------------------------------------------------
(* Supervisor (agents/supervisor.py).                                      *)

\* faulty variant: a missing flag is read as True
SupervisorExecuteMissingAsTrue(st) ==
    IF ~Get(st, "retrieval_performed", TRUE) THEN "document_retriever"
    ELSE IF ~Get(st, "cross_document_performed", TRUE) THEN "cross_document"
    ELSE IF ~Get(st, "qa_performed", TRUE) THEN "qa_agent"
    ELSE IF ~Get(st, "source_tracking_performed", TRUE) THEN "source_tracker"
    ELSE "__end__"

\* faulty variant: the QA branch is tested before the cross-document branch
SupervisorExecuteQAFirst(st) ==
    IF ~Get(st, "retrieval_performed", FALSE) THEN "document_retriever"
    ELSE IF ~Get(st, "qa_performed", FALSE) THEN "qa_agent"
    ELSE IF ~Get(st, "cross_document_performed", FALSE) THEN "cross_document"
    ELSE IF ~Get(st, "source_tracking_performed", FALSE) THEN "source_tracker"
    ELSE "__end__"

\* faulty variant: the QA branch is missing
SupervisorExecuteSkipQA(st) ==
    IF ~Get(st, "retrieval_performed", FALSE) THEN "document_retriever"
    ELSE IF ~Get(st, "cross_document_performed", FALSE) THEN "cross_document"
    ELSE IF ~Get(st, "source_tracking_performed", FALSE) THEN "source_tracker"
    ELSE "__end__"

\* SupervisorAgent.execute: the goto of the returned Command
SupervisorExecute(st) ==
    LET retrieval_performed == Get(st, "retrieval_performed", FALSE)
        qa_performed == Get(st, "qa_performed", FALSE)
        cross_document_performed == Get(st, "cross_document_performed", FALSE)
        source_tracking_performed == Get(st, "source_tracking_performed", FALSE)
    IN  IF ~retrieval_performed THEN "document_retriever"
        ELSE IF ~cross_document_performed THEN "cross_document"
        ELSE IF ~qa_performed THEN "qa_agent"
        ELSE IF ~source_tracking_performed THEN "source_tracker"
        ELSE "__end__"

-----------------------------------------------------------------------------
(* Source tracker (agents/source_tracker.py).                              *)

EmptyDict == [x \in {} |-> ""]

\* line 69: clean_source, with the filename fallback of lines 70-71
CleanSource(metadata) ==
    With(LAMBDA clean_source :
             IF clean_source = "" THEN Get(metadata, "filename", "Bilinmeyen")
             ELSE clean_source,
         ReplaceAll[ReplaceAll[Get(metadata, "source", ""), "data/raw/"], ".pdf"])

\* line 74: page_number = metadata.get("page_number", metadata.get("page", ""))
PageNumber(metadata) ==
    Get(metadata, "page_number", Get(metadata, "page", PyStr("")))

\* line 78: the deduplication key
SourceKey(doc) ==
    LET metadata == Get(doc, "metadata", EmptyDict)
    IN  <<CleanSource(metadata), PageNumber(metadata)>>

\* lines 84-91: the citation record of one document
CitationRecord(doc) ==
    LET metadata == Get(doc, "metadata", EmptyDict)
        page_number == PageNumber(metadata)
    IN  [clean_source |-> CleanSource(metadata),
         page |-> IF Truthy(page_number) THEN "Sayfa " \o PyToStr(page_number)
                  ELSE "Sayfa bilinmiyor",
         source_path |-> Get(metadata, "source", ""),
         chunk_index |-> Get(metadata, "chunk_index", 0),
         similarity_score |-> Get(doc, "similarity_score", 0),
         content |-> Prefix[Get(doc, "content", ""), 100] \o "..."]

\* lines 79-80: `if source_key in seen_sources: continue`
\* faulty variant: no key is ever taken as seen
IsSeenNever(source_key, seen_sources) == FALSE

IsSeen(source_key, seen_sources) == source_key \in seen_sources

\* the for loop of _extract_sources over the rest of the documents
ExtractLoop[documents \in Any, sources \in Any, seen_sources \in Any] ==
    IF documents = <<>> THEN sources
    ELSE LET doc == Head(documents)
         IN  With(LAMBDA source_key :
                      IF IsSeen(source_key, seen_sources)
                      THEN ExtractLoop[Tail(documents), sources, seen_sources]
                      ELSE ExtractLoop[Tail(documents), Append(sources, CitationRecord(doc)),
                                       seen_sources \cup {source_key}],
                  SourceKey(doc))

\* the list in reverse order
Reverse(seq) == [i \in 1..Len(seq) |-> seq[Len(seq) + 1 - i]]

\* faulty variant: of the documents with one key the last is the one cited
ExtractSourcesKeepsLast(documents) == Reverse(ExtractLoop[Reverse(documents), <<>>, {}])

\* SourceTrackerAgent._extract_sources
ExtractSources(documents) == ExtractLoop[documents, <<>>, {}]

\* SourceTrackerAgent._add_citations
AddCitations(response, sources) == response

\* faulty variant: a fresh dict with the tracker's own keys is returned
SourceTrackerExecuteFreshDict(st) ==
    LET retrieved_documents == Get(st, "retrieved_documents", <<>>)
        qa_response == Get(st, "qa_response", "")
    IN  [source_tracking_performed |-> TRUE,
         sources |-> ExtractSources(retrieved_documents),
         cited_response |-> qa_response]

\* faulty variant: the empty-input branch writes an empty cited_response
SourceTrackerExecuteDropAnswer(st) ==
    LET retrieved_documents == Get(st, "retrieved_documents", <<>>)
        st1 == Put(st, "source_tracking_performed", TRUE)
    IN  IF retrieved_documents = <<>>
        THEN Put(Put(st1, "sources", <<>>), "cited_response", "")
        ELSE Put(Put(st1, "sources", ExtractSources(retrieved_documents)),
                 "cited_response", Get(st, "qa_response", ""))

\* faulty variant: the tracker empties retrieved_documents once it has cited them
SourceTrackerExecuteClearsDocuments(st) ==
    LET retrieved_documents == Get(st, "retrieved_documents", <<>>)
        qa_response == Get(st, "qa_response", "")
        st1 == Put(Put(st, "source_tracking_performed", TRUE), "retrieved_documents", <<>>)
    IN  IF retrieved_documents = <<>>
        THEN Put(Put(st1, "sources", <<>>), "cited_response", qa_response)
        ELSE Put(Put(st1, "sources", ExtractSources(retrieved_documents)),
                 "cited_response", qa_response)

\* faulty variant: an empty answer gets no citations
SourceTrackerExecuteAnswerDependent(st) ==
    LET retrieved_documents == Get(st, "retrieved_documents", <<>>)
        qa_response == Get(st, "qa_response", "")
        st1 == Put(st, "source_tracking_performed", TRUE)
    IN  IF retrieved_documents = <<>> \/ qa_response = ""
        THEN Put(Put(st1, "sources", <<>>), "cited_response", qa_response)
        ELSE LET sources == ExtractSources(retrieved_documents)
                 cited_response == AddCitations(qa_response, sources)
             IN  Put(Put(st1, "sources", sources), "cited_response", cited_response)

\* SourceTrackerAgent.execute
SourceTrackerExecute(st) ==
    LET retrieved_documents == Get(st, "retrieved_documents", <<>>)
        qa_response == Get(st, "qa_response", "")
        st1 == Put(st, "source_tracking_performed", TRUE)
    IN  IF retrieved_documents = <<>>
        THEN Put(Put(st1, "sources", <<>>), "cited_response", qa_response)
        ELSE LET sources == ExtractSources(retrieved_documents)
                 cited_response == AddCitations(qa_response, sources)
             IN  Put(Put(st1, "sources", sources), "cited_response", cited_response)

-----------------------------------------------------------------------------
(* Document retriever (agents/document_retriever.py).                      *)

turkish_indicators ==
    {"nedir", "nelerdir", "nasîl", "ne", "hangi", "için", "ile", "bir", "bu", "þu",
     "mî", "mi", "mu", "mü", "da", "de", "ta", "te", "la", "le", "în", "in", "un", "ün",
     "hibe", "baþvuru", "proje", "belgeler", "kriterler", "süreç"}

english_indicators ==
    {"what", "how", "which", "where", "when", "why", "is", "are", "the", "and", "or",
     "in", "on", "at", "for", "with", "by", "from", "to", "of", "grant", "application",
     "project", "documents", "criteria", "process", "requirements", "eligibility",
     "personnel", "costs", "budget", "funding", "can", "should", "must", "will",
     "this", "that", "these", "those", "do", "does", "did", "have", "has", "had"}

italian_indicators ==
    {"che", "cosa", "come", "quale", "dove", "quando", "perché", "è", "sono", "il", "la",
     "di", "a", "da", "in", "con", "su", "per", "tra", "fra", "sovvenzioni", "domanda",
     "progetto", "documenti", "criteri", "processo"}

\* sum(1 for word in words if word in indicators)
Score(words, indicators) == Cardinality({i \in 1..Len(words) : words[i] \in indicators})

\* faulty variant: ties go to English before Turkish
DetectLanguageEnglishFirst(text) ==
    With(LAMBDA words :
             LET tr_score == Score(words, turkish_indicators)
                 en_score == Score(words, english_indicators)
                 it_score == Score(words, italian_indicators)
             IN  IF en_score >= tr_score /\ en_score >= it_score THEN "english"
                 ELSE IF tr_score >= it_score THEN "turkish"
                 ELSE "italian",
         Split[Lower[text]])

\* DocumentRetrieverAgent._detect_language
DetectLanguage(text) ==
    With(LAMBDA words :
             LET tr_score == Score(words, turkish_indicators)
                 en_score == Score(words, english_indicators)
                 it_score == Score(words, italian_indicators)
             IN  IF tr_score >= en_score /\ tr_score >= it_score THEN "turkish"
                 ELSE IF en_score >= it_score THEN "english"
                 ELSE "italian",
         Split[Lower[text]])

irrelevant_patterns_tr ==
    <<"merhaba", "hey", "selam", "nasîlsîn", "nasîl gidiyor",
      "günaydîn", "iyi akþamlar", "teþekkürler", "saðol",
      "hoþça kal", "görüþürüz", "naber", "ne var ne yok">>

irrelevant_patterns_en ==
    <<"hello", "hi", "hey", "how are you", "how is it going",
      "good morning", "good evening", "thank you", "thanks",
      "goodbye", "see you", "what's up", "how's life">>

grant_keywords_tr ==
    <<"grant", "hibe", "amif", "proje", "baþvuru", "finansman",
      "bütçe", "maliyet", "personel", "eligibility", "uygunluk",
      "criteria", "kriter", "application", "document", "belge">>

grant_keywords_en ==
    <<"grant", "amif", "project", "application", "funding",
      "budget", "cost", "personnel", "eligibility", "criteria",
      "documentation", "requirement", "guideline", "procedure">>

\* any(p in text for p in patterns)
ContainsAny(text, patterns) == \E i \in 1..Len(patterns) : Contains[text, patterns[i]]

\* faulty variant: the greeting patterns reject a query of any length
IsQueryRelevantAnyLength(query, language) ==
    With(LAMBDA query_lower :
             LET patterns == IF language = "tr" THEN irrelevant_patterns_tr
                             ELSE irrelevant_patterns_en
                 words == Split[query_lower]
                 has_grant_keyword ==
                     ContainsAny(query_lower, grant_keywords_tr \o grant_keywords_en)
             IN  IF ContainsAny(query_lower, patterns) THEN FALSE
                 ELSE IF has_grant_keyword THEN TRUE
                 ELSE Len(words) >= 5,
         Strip[Lower[query]])

\* DocumentRetrieverAgent._is_query_relevant
IsQueryRelevant(query, language) ==
    With(LAMBDA query_lower :
             LET patterns == IF language = "tr" THEN irrelevant_patterns_tr
                             ELSE irrelevant_patterns_en
                 words == Split[query_lower]
                 has_grant_keyword ==
                     ContainsAny(query_lower, grant_keywords_tr \o grant_keywords_en)
             IN  IF Len(words) < 3 /\ ContainsAny(query_lower, patterns) THEN FALSE
                 ELSE IF has_grant_keyword THEN TRUE
                 ELSE IF Len(words) < 5 /\ ~has_grant_keyword THEN FALSE
                 ELSE Len(words) >= 5,
         Strip[Lower[query]])

\* grant_mappings, in the dict's iteration order
grant_mappings ==
    << <<"women", <<"women", "woman", "kadîn", "kadînlar", "female", "gender">> >>,
       <<"children", <<"children", "child", "çocuk", "çocuklar", "youth", "minors">> >>,
       <<"health", <<"health", "saðlîk", "healthcare", "medical", "tîbbi">> >>,
       <<"digital", <<"digital", "dijital", "technology", "teknoloji", "online">> >>,
       <<"pathways", <<"pathways", "education", "eðitim", "training", "öðretim">> >> >>

\* the entries m[1] of mapping list m, in order, whose keyword list m[2] hits text
SelectSeq2[m \in Any, i \in Nat, text \in STRING] ==
    IF i > Len(m) THEN <<>>
    ELSE (IF ContainsAny(text, m[i][2]) THEN <<m[i][1]>> ELSE <<>>)
            \o SelectSeq2[m, i + 1, text]

\* DocumentRetrieverAgent._extract_grant_types_from_query
ExtractGrantTypesFromQuery(query) == SelectSeq2[grant_mappings, 1, Lower[query]]

\* the search term of a grant type (search_terms.get(grant_type, ...))
SearchTerm(grant_type) ==
    "AMIF-2025 " \o Upper[grant_type] \o " grant eligibility criteria budget"

\* ingestion.vector_store.search_documents: what the caller gets from a backend
\* outcome [ok, hits]: the ranked hits, or nothing when the backend raised
SearchDocuments(outcome, k) ==
    IF ~outcome.ok THEN <<>>
    ELSE IF Len(outcome.hits) <= k THEN outcome.hits ELSE SubSeq(outcome.hits, 1, k)

\* lines 189-192: a search hit as a document dict
DocDict(doc) == [content |-> doc.page_content, metadata |-> doc.metadata]

\* lines 185-192 and 209-216: append the hits whose source is new
MergeUnique[results \in Any, all_documents \in Any, unique_sources \in Any] ==
    IF results = <<>> THEN [docs |-> all_documents, seen |-> unique_sources]
    ELSE LET doc == Head(results)
             source == Get(doc.metadata, "source", "")
         IN  IF source \notin unique_sources
             THEN MergeUnique[Tail(results), Append(all_documents, DocDict(doc)),
                              unique_sources \cup {source}]
             ELSE MergeUnique[Tail(results), all_documents, unique_sources]

\* lines 196-216: one targeted search per grant type, backend[i+1] answering the i-th
MultiSearchLoop[grant_types \in Any, i \in Nat, backend \in Any, acc \in Any] ==
    IF i > Len(grant_types) THEN acc
    ELSE With(LAMBDA merged :
                  MultiSearchLoop[grant_types, i + 1, backend,
                      [docs |-> merged.docs, seen |-> merged.seen,
                       log |-> Append(acc.log, <<SearchTerm(grant_types[i]), 4>>)]],
              MergeUnique[SearchDocuments(backend[i + 1], 4), acc.docs, acc.seen])

\* faulty variant: the per-type searches are merged before the main search
PerformMultiSearchCategoryFirst(query, grant_types, backend) ==
    With(LAMBDA typed :
             With(LAMBDA merged :
                      [docs |-> merged.docs, seen |-> merged.seen, log |-> typed.log],
                  MergeUnique[SearchDocuments(backend[1], 6), typed.docs, typed.seen]),
         MultiSearchLoop[grant_types, 1, backend,
             [docs |-> <<>>, seen |-> {}, log |-> << <<query, 6>> >>]])

\* faulty variant: only the per-type searches are issued
PerformMultiSearchOnlyTyped(query, grant_types, backend) ==
    MultiSearchLoop[grant_types, 1, backend, [docs |-> <<>>, seen |-> {}, log |-> <<>>]]

\* DocumentRetrieverAgent._perform_multi_search: the merged list and the searches issued
PerformMultiSearch(query, grant_types, backend) ==
    With(LAMBDA first :
             MultiSearchLoop[grant_types, 1, backend,
                 [docs |-> first.docs, seen |-> first.seen, log |-> << <<query, 6>> >>]],
         MergeUnique[SearchDocuments(backend[1], 6), <<>>, {}])

\* lines 266-271 as a comprehension
DocDicts(documents) == [i \in 1..Len(documents) |-> DocDict(documents[i])]

\* lines 231-252 of execute: what the agent works out from the query before it
\* searches ("none" for relevant when the filter is not consulted)
AnalyzeQuery(st) ==
    LET query == Get(st, "query", "")
    IN  IF query = ""
        THEN [query |-> query, detected_language |-> "tr", relevant |-> "none",
              grant_types |-> <<>>]
        ELSE With(LAMBDA detected_language :
                      IF ~IsQueryRelevant(query, detected_language)
                      THEN [query |-> query, detected_language |-> detected_language,
                            relevant |-> "no", grant_types |-> <<>>]
                      ELSE [query |-> query, detected_language |-> detected_language,
                            relevant |-> "yes",
                            grant_types |-> ExtractGrantTypesFromQuery(query)],
                  DetectLanguage(query))

\* lines 256-262: how many searches the try block issues
SearchesNeeded(q) == IF Len(q.grant_types) >= 2 THEN 1 + Len(q.grant_types) ELSE 1

\* faulty variant: the retrieval is marked performed only when documents were found
DocumentRetrieverExecuteNoFlagOnEmpty(st, q, backend, fault) ==
    IF q.relevant = "none"
    THEN [st |-> Put(Put(Put(st, "retrieved_documents", <<>>),
                         "retrieval_performed", TRUE), "detected_language", "tr"),
          log |-> <<>>]
    ELSE
    LET st1 == Put(st, "detected_language", q.detected_language)
    IN  IF q.relevant = "no"
        THEN [st |-> Put(Put(st1, "retrieved_documents", <<>>),
                         "retrieval_performed", TRUE),
              log |-> <<>>]
        ELSE IF fault
        THEN [st |-> Put(Put(Put(st1, "retrieved_documents", <<>>),
                             "retrieval_performed", TRUE),
                         "detected_language", q.detected_language),
              log |-> <<>>]
        ELSE
        With(LAMBDA found :
                 [st |-> Put(Put(Put(Put(st1, "retrieved_documents", found.docs),
                                     "retrieval_performed", found.docs # <<>>),
                                 "detected_language", q.detected_language),
                             "grant_types_detected", q.grant_types),
                  log |-> found.log],
             IF Len(q.grant_types) >= 2
             THEN PerformMultiSearch(q.query, q.grant_types, backend)
             ELSE [docs |-> DocDicts(SearchDocuments(backend[1], 8)),
                   log |-> << <<q.query, 8>> >>])

\* DocumentRetrieverAgent.execute, q being AnalyzeQuery(st).  backend[i] is the
\* backend's outcome for the i-th search; fault says that a statement of the try
\* block raised.  Result: the state and the searches issued.
DocumentRetrieverExecute(st, q, backend, fault) ==
    IF q.relevant = "none"
    THEN [st |-> Put(Put(Put(st, "retrieved_documents", <<>>),
                         "retrieval_performed", TRUE), "detected_language", "tr"),
          log |-> <<>>]
    ELSE
    LET st1 == Put(st, "detected_language", q.detected_language)
    IN  IF q.relevant = "no"
        THEN [st |-> Put(Put(st1, "retrieved_documents", <<>>),
                         "retrieval_performed", TRUE),
              log |-> <<>>]
        ELSE IF fault
        THEN [st |-> Put(Put(Put(st1, "retrieved_documents", <<>>),
                             "retrieval_performed", TRUE),
                         "detected_language", q.detected_language),
              log |-> <<>>]
        ELSE
        With(LAMBDA found :
                 [st |-> Put(Put(Put(Put(st1, "retrieved_documents", found.docs),
                                     "retrieval_performed", TRUE),
                                 "detected_language", q.detected_language),
                             "grant_types_detected", q.grant_types),
                  log |-> found.log],
             IF Len(q.grant_types) >= 2
             THEN PerformMultiSearch(q.query, q.grant_types, backend)
             ELSE [docs |-> DocDicts(SearchDocuments(backend[1], 8)),
                   log |-> << <<q.query, 8>> >>])

-----------------------------------------------------------------------------
(* Cross-document agent (agents/cross_document_agent.py).                  *)

\* re.IGNORECASE match of the literal lit at position i of s
LitAt(s, i, lit) ==
    /\ i >= 1
    /\ i + Len(lit) - 1 <= Len(s)
    /\ Lower[SubSeq(s, i, i + Len(lit) - 1)] = Lower[lit]

\* \d{n}: n digits from position i on
DigitsAt(s, i, n) ==
    /\ i + n - 1 <= Len(s)
    /\ \A j \in i..(i + n - 1) : IsDigit(Char(s, j))

\* greedy \d*: the last position of the digit run that starts at i (i-1 when empty)
DigitRunEnd[s \in STRING, i \in Int] ==
    IF i <= Len(s) /\ IsDigit(Char(s, i)) THEN DigitRunEnd[s, i + 1] ELSE i - 1

\* greedy [^_]*: the last position of the underscore-free run that starts at i
OtherRunEnd[s \in STRING, i \in Int] ==
    IF i <= Len(s) /\ Char(s, i) # "_" THEN OtherRunEnd[s, i + 1] ELSE i - 1

\* (AMIF-\d{4}-TF\d+-AG-[^_]+) anchored at i: the last position matched, 0 for no match
FullPatternEnd(s, i) ==
    IF LitAt(s, i, "AMIF-") /\ DigitsAt(s, i + 5, 4) /\ LitAt(s, i + 9, "-TF")
    THEN With(LAMBDA d :
                  IF d >= i + 12 /\ LitAt(s, d + 1, "-AG-") /\ OtherRunEnd[s, d + 5] >= d + 5
                  THEN OtherRunEnd[s, d + 5] ELSE 0,
              DigitRunEnd[s, i + 12])
    ELSE 0

\* (AMIF-\d{4}-[^_]+) anchored at i
ShortPatternEnd(s, i) ==
    IF LitAt(s, i, "AMIF-") /\ DigitsAt(s, i + 5, 4) /\ LitAt(s, i + 9, "-")
          /\ OtherRunEnd[s, i + 10] >= i + 10
    THEN OtherRunEnd[s, i + 10] ELSE 0

\* the last position of the match of a grant pattern anchored at i, 0 for no match;
\* full selects the first or the second of grant_patterns
PatternEnd(s, i, full) == IF full THEN FullPatternEnd(s, i) ELSE ShortPatternEnd(s, i)

\* the leftmost match that starts at position i or later, "" when there is none
FirstMatchFrom[s \in STRING, i \in Int, full \in BOOLEAN] ==
    IF i > Len(s) THEN ""
    ELSE IF PatternEnd(s, i, full) > 0 THEN SubSeq(s, i, PatternEnd(s, i, full))
    ELSE FirstMatchFrom[s, i + 1, full]

\* re.findall(pattern, filename, re.IGNORECASE)[0], or "" when there is no match
FirstMatch(filename, full) == FirstMatchFrom[filename, 1, full]

\* lines 58-64: the grant id found in the filename, "" when grant_found stays False
GrantIdFromFilename(filename) ==
    With(LAMBDA first :
             IF first # "" THEN Upper[first]
             ELSE With(LAMBDA second : IF second # "" THEN Upper[second] ELSE "",
                       FirstMatch(filename, FALSE)),
         FirstMatch(filename, TRUE))

\* grant_keywords of lines 71-77, in the dict's iteration order
grant_keywords ==
    << <<"AMIF-2025-TF2-AG-INTE-01-WOMEN", <<"WOMEN", "GENDER", "FEMALE">> >>,
       <<"AMIF-2025-TF2-AG-INTE-05-CHILDREN", <<"CHILDREN", "CHILD", "MINORS", "YOUTH">> >>,
       <<"AMIF-2025-TF2-AG-INTE-02-HEALTH", <<"HEALTH", "MEDICAL", "HEALTHCARE">> >>,
       <<"AMIF-2025-TF2-AG-INTE-03-DIGITAL", <<"DIGITAL", "TECHNOLOGY", "ONLINE">> >>,
       <<"AMIF-2025-TF2-AG-INTE-04-PATHWAYS", <<"PATHWAYS", "EDUCATION", "TRAINING">> >> >>

\* sum(1 for keyword in keywords if keyword in content)
KeywordScore(keywords, content) ==
    Cardinality({i \in 1..Len(keywords) : Contains[content, keywords[i]]})

\* lines 82-86: best_match after the entries from i on, "" standing for None
BestMatchLoop[i \in Nat, content \in STRING, best_match \in STRING, max_score \in Nat] ==
    IF i > Len(grant_keywords) THEN [best_match |-> best_match, max_score |-> max_score]
    ELSE With(LAMBDA score :
                  IF score > max_score
                  THEN BestMatchLoop[i + 1, content, grant_keywords[i][1], score]
                  ELSE BestMatchLoop[i + 1, content, best_match, max_score],
              KeywordScore(grant_keywords[i][2], content))

\* faulty variant of the loop: an entry that equals the best score replaces it
BestMatchLoopLastTie[i \in Nat, content \in STRING, best_match \in STRING, max_score \in Nat] ==
    IF i > Len(grant_keywords) THEN [best_match |-> best_match, max_score |-> max_score]
    ELSE With(LAMBDA score :
                  IF score >= max_score
                  THEN BestMatchLoopLastTie[i + 1, content, grant_keywords[i][1], score]
                  ELSE BestMatchLoopLastTie[i + 1, content, best_match, max_score],
              KeywordScore(grant_keywords[i][2], content))

\* faulty variant: among the identifiers with the best score the last one wins
GroupKeyLastTie(doc) ==
    LET metadata == Get(doc, "metadata", EmptyDict)
        grant_group == Get(metadata, "grant_group", "")
        filename == IF Get(metadata, "filename", "") # "" THEN Get(metadata, "filename", "")
                    ELSE Get(metadata, "source", "")
    IN  IF grant_group # "" /\ grant_group # "unknown_grant" THEN grant_group
        ELSE IF filename # ""
        THEN With(LAMBDA grant_id :
                      IF grant_id # "" THEN grant_id
                      ELSE With(LAMBDA best :
                                    IF best.best_match # "" /\ best.max_score > 0
                                    THEN best.best_match
                                    ELSE "UNKNOWN",
                                BestMatchLoopLastTie[1, Upper[Get(doc, "content", "")], "", 0]),
                  GrantIdFromFilename(filename))
        ELSE "UNKNOWN"

\* faulty variant: the filename is consulted before the metadata's grant_group
GroupKeyFilenameFirst(doc) ==
    LET metadata == Get(doc, "metadata", EmptyDict)
        grant_group == Get(metadata, "grant_group", "")
        filename == IF Get(metadata, "filename", "") # "" THEN Get(metadata, "filename", "")
                    ELSE Get(metadata, "source", "")
    IN  IF filename # "" /\ GrantIdFromFilename(filename) # ""
        THEN GrantIdFromFilename(filename)
        ELSE IF grant_group # "" /\ grant_group # "unknown_grant" THEN grant_group
        ELSE IF filename # ""
        THEN With(LAMBDA best :
                      IF best.best_match # "" /\ best.max_score > 0
                      THEN best.best_match
                      ELSE "UNKNOWN",
                  BestMatchLoop[1, Upper[Get(doc, "content", "")], "", 0])
        ELSE "UNKNOWN"

\* the group key one document gets: the body of the for loop of lines 37-93
GroupKey(doc) ==
    LET metadata == Get(doc, "metadata", EmptyDict)
        grant_group == Get(metadata, "grant_group", "")
        filename == IF Get(metadata, "filename", "") # "" THEN Get(metadata, "filename", "")
                    ELSE Get(metadata, "source", "")
    IN  IF grant_group # "" /\ grant_group # "unknown_grant" THEN grant_group
        ELSE IF filename # ""
        THEN With(LAMBDA grant_id :
                      IF grant_id # "" THEN grant_id
                      ELSE With(LAMBDA best :
                                    IF best.best_match # "" /\ best.max_score > 0
                                    THEN best.best_match
                                    ELSE "UNKNOWN",
                                BestMatchLoop[1, Upper[Get(doc, "content", "")], "", 0]),
                  GrantIdFromFilename(filename))
        ELSE "UNKNOWN"

\* the keys of an ordered dict kept as a list of <<key, value>> pairs
Keys(d) == [i \in 1..Len(d) |-> d[i][1]]

\* d[key], for a key of the ordered dict
Lookup(d, key) == d[CHOOSE i \in 1..Len(d) : d[i][1] = key][2]

\* faulty variant: the document is put in front of its group
GroupAppendFront(d, key, doc) ==
    IF \E i \in 1..Len(d) : d[i][1] = key
    THEN With(LAMBDA i :
                  SubSeq(d, 1, i - 1) \o << <<key, <<doc>> \o d[i][2]>> >>
                      \o SubSeq(d, i + 1, Len(d)),
              CHOOSE i \in 1..Len(d) : d[i][1] = key)
    ELSE Append(d, <<key, <<doc>> >>)

\* faulty variant: the document replaces its group
GroupAppendOverwrite(d, key, doc) ==
    IF \E i \in 1..Len(d) : d[i][1] = key
    THEN With(LAMBDA i :
                  SubSeq(d, 1, i - 1) \o << <<key, <<doc>> >> >> \o SubSeq(d, i + 1, Len(d)),
              CHOOSE i \in 1..Len(d) : d[i][1] = key)
    ELSE Append(d, <<key, <<doc>> >>)

\* defaultdict(list): grant_groups[key].append(doc)
GroupAppend(d, key, doc) ==
    IF \E i \in 1..Len(d) : d[i][1] = key
    THEN With(LAMBDA i :
                  SubSeq(d, 1, i - 1) \o << <<key, Append(d[i][2], doc)>> >>
                      \o SubSeq(d, i + 1, Len(d)),
              CHOOSE i \in 1..Len(d) : d[i][1] = key)
    ELSE Append(d, <<key, <<doc>> >>)

\* the for loop of lines 37-93 over the rest of the documents
GroupLoop[documents \in Any, d \in Any] ==
    IF documents = <<>> THEN d
    ELSE GroupLoop[Tail(documents),
                   GroupAppend(d, GroupKey(Head(documents)), Head(documents))]

\* CrossDocumentAgent._extract_grant_groups: the dict, in insertion order
ExtractGrantGroups(documents) == GroupLoop[documents, <<>>]

\* CrossDocumentAgent._identify_document_types
IdentifyDocumentTypes(filename) ==
    With(LAMBDA filename_lower :
        IF Contains[filename_lower, "call-fiche"] \/ Contains[filename_lower, "call_fiche"]
        THEN "call_document"
        ELSE IF Contains[filename_lower, "faq"] THEN "faq"
        ELSE IF Contains[filename_lower, "template"] THEN "template"
        ELSE IF Contains[filename_lower, "guide"] \/ Contains[filename_lower, "guideline"]
        THEN "guide"
        ELSE IF Contains[filename_lower, "aga"] THEN "administrative_guide"
        ELSE IF Contains[filename_lower, "evaluation"] THEN "evaluation_guide"
        ELSE "other",
        Lower[filename])

\* the result of one llm.invoke: the text of the response, or the message of the
\* exception it raised
LLMOutcomes == {[ok |-> TRUE, text |-> "LLM text"], [ok |-> FALSE, text |-> "rate limit"]}

\* sum(len(docs) for docs in grant_groups.values())
SumLen[d \in Any, i \in Nat] == IF i > Len(d) THEN 0 ELSE Len(d[i][2]) + SumLen[d, i + 1]

\* faulty variant: a failed comparison call is reported as a single-grant analysis
PerformCrossGrantComparisonHidesError(groups, query, llm) ==
    IF Len(groups) < 2 \/ ~llm.ok
    THEN [result |-> [comparison_type |-> "single_grant", analysis |-> "Tek grant analizi"],
          calls |-> IF Len(groups) < 2 THEN 0 ELSE 1]
    ELSE [result |-> [comparison_type |-> "cross_grant", analysis |-> llm.text,
                      grants_compared |-> Keys(groups),
                      total_documents |-> SumLen[groups, 1]],
          calls |-> 1]

\* faulty variant: total_documents counts the groups
PerformCrossGrantComparisonCountsGroups(groups, query, llm) ==
    IF Len(groups) < 2
    THEN [result |-> [comparison_type |-> "single_grant", analysis |-> "Tek grant analizi"],
          calls |-> 0]
    ELSE IF llm.ok
    THEN [result |-> [comparison_type |-> "cross_grant", analysis |-> llm.text,
                      grants_compared |-> Keys(groups),
                      total_documents |-> Len(groups)],
          calls |-> 1]
    ELSE [result |-> [comparison_type |-> "error",
                      analysis |-> "Karþîlaþtîrma hatasî: " \o llm.text,
                      grants_compared |-> Keys(groups)],
          calls |-> 1]

\* CrossDocumentAgent._perform_cross_grant_comparison: the result and the LLM calls made
PerformCrossGrantComparison(groups, query, llm) ==
    IF Len(groups) < 2
    THEN [result |-> [comparison_type |-> "single_grant", analysis |-> "Tek grant analizi"],
          calls |-> 0]
    ELSE IF llm.ok
    THEN [result |-> [comparison_type |-> "cross_grant", analysis |-> llm.text,
                      grants_compared |-> Keys(groups),
                      total_documents |-> SumLen[groups, 1]],
          calls |-> 1]
    ELSE [result |-> [comparison_type |-> "error",
                      analysis |-> "Karþîlaþtîrma hatasî: " \o llm.text,
                      grants_compared |-> Keys(groups)],
          calls |-> 1]

\* a letter, digit or underscore, as \w and \b see it
IsWordChar(c) ==
    \/ c \in DOMAIN LowerOf \/ c \in DOMAIN UpperOf \/ IsDigit(c) \/ c = "_"
    \/ c \in {"ç", "ö", "ü", "î", "þ", "ð", "é", "è"}

\* len(re.findall(rf'\b{theme}\b', text, re.IGNORECASE)), given theme and text in
\* lower case
CountWholeWordLower(theme, text) ==
    Cardinality({i \in 1..(Len(text) - Len(theme) + 1) :
        /\ SubSeq(text, i, i + Len(theme) - 1) = theme
        /\ (i = 1 \/ ~IsWordChar(Char(text, i - 1)))
        /\ (i + Len(theme) > Len(text) \/ ~IsWordChar(Char(text, i + Len(theme))))})

key_themes ==
    <<"eligibility", "budget", "personnel", "cost", "application",
      "deadline", "criteria", "evaluation", "implementation",
      "uygunluk", "bütçe", "personel", "maliyet", "baþvuru",
      "kriterler", "deðerlendirme", "uygulama">>

\* " ".join([doc.get('content', '') for doc in documents])
JoinContent[documents \in Any] ==
    IF documents = <<>> THEN ""
    ELSE IF Len(documents) = 1 THEN Get(documents[1], "content", "")
    ELSE Get(documents[1], "content", "") \o " " \o JoinContent[Tail(documents)]

\* lines 230-236: the themes with a nonzero count, in key_themes order;
\* lower_content is all_content in lower case (the search ignores case)
ThemeEntry(i, lower_content) ==
    With(LAMBDA count :
            IF count > 0 THEN <<[theme |-> key_themes[i], frequency |-> count]>> ELSE <<>>,
         CountWholeWordLower(Lower[key_themes[i]], lower_content))

ThemeLoop(lower_content) ==
    ThemeEntry(1, lower_content) \o ThemeEntry(2, lower_content)
        \o ThemeEntry(3, lower_content) \o ThemeEntry(4, lower_content)
        \o ThemeEntry(5, lower_content) \o ThemeEntry(6, lower_content)
        \o ThemeEntry(7, lower_content) \o ThemeEntry(8, lower_content)
        \o ThemeEntry(9, lower_content) \o ThemeEntry(10, lower_content)
        \o ThemeEntry(11, lower_content) \o ThemeEntry(12, lower_content)
        \o ThemeEntry(13, lower_content) \o ThemeEntry(14, lower_content)
        \o ThemeEntry(15, lower_content) \o ThemeEntry(16, lower_content)
        \o ThemeEntry(17, lower_content)

\* CrossDocumentAgent._analyze_document_relationships
AnalyzeDocumentRelationships(documents) ==
    LET TypeOf(doc) ==
            IdentifyDocumentTypes(Get(Get(doc, "metadata", EmptyDict), "filename", ""))
        types == {TypeOf(documents[i]) : i \in 1..Len(documents)}
    IN  [document_types |->
            [t \in types |-> Cardinality({i \in 1..Len(documents) : TypeOf(documents[i]) = t})],
         common_themes |-> With(LAMBDA lower_content : ThemeLoop(lower_content),
                                Lower[JoinContent[documents]]),
         reference_patterns |-> <<>>,
         coverage_gaps |-> <<>>]

\* CrossDocumentAgent._synthesize_cross_document_answer
SynthesizeCrossDocumentAnswer(documents, query, groups, llm) ==
    IF llm.ok THEN llm.text ELSE "Belge sentezi hatasî: " \o llm.text

\* faulty variant: every key gets the number of all documents
GroupCountsTotal(groups) == [i \in 1..Len(groups) |-> <<groups[i][1], SumLen[groups, 1]>>]

\* {k: len(v) for k, v in grant_groups.items()}
GroupCounts(groups) == [i \in 1..Len(groups) |-> <<groups[i][1], Len(groups[i][2])>>]

\* faulty variant: the except block does not set the flag
CrossDocumentExceptNoFlag(st) ==
    Put(st, "cross_document_analysis", [analysis |-> "Analiz hatasî: fault"])

\* lines 345-348: the except block of execute, for an exception whose message is "fault"
CrossDocumentExcept(st) ==
    Put(Put(st, "cross_document_analysis", [analysis |-> "Analiz hatasî: fault"]),
        "cross_document_performed", TRUE)

\* CrossDocumentAgent.execute.  llm1 answers the comparison call, llm2 the synthesis
\* call; fault says that a statement of the try block raised.
CrossDocumentExecute(st, llm1, llm2, fault) ==
    LET documents == Get(st, "retrieved_documents", <<>>)
        query == Get(st, "query", "")
    IN  IF documents = <<>> \/ query = ""
        THEN [st |-> Put(Put(st, "cross_document_analysis",
                             [analysis |-> "Yeterli belge bulunamadî"]),
                         "cross_document_performed", TRUE),
              grouped |-> FALSE, groups |-> <<>>, calls |-> 0]
        ELSE IF fault
        THEN [st |-> CrossDocumentExcept(st), grouped |-> FALSE, groups |-> <<>>, calls |-> 0]
        ELSE
        With(LAMBDA groups :
        With(LAMBDA relationships :
        LET comparison == PerformCrossGrantComparison(groups, query, llm1)
            synthesized_answer == SynthesizeCrossDocumentAnswer(documents, query, groups, llm2)
        IN  [st |-> Put(Put(st, "cross_document_analysis",
                            [grant_groups |-> GroupCounts(groups),
                             relationships |-> relationships,
                             comparison |-> comparison.result,
                             synthesized_answer |-> synthesized_answer,
                             total_grants_analyzed |-> Len(groups),
                             cross_document_insights |-> Len(relationships.common_themes)]),
                        "cross_document_performed", TRUE),
             grouped |-> TRUE, groups |-> groups, calls |-> comparison.calls + 1],
        AnalyzeDocumentRelationships(documents)),
        ExtractGrantGroups(documents))

-----------------------------------------------------------------------------
(* QA agent (agents/qa_agent.py).                                          *)

simple_greetings == <<"hello", "hi", "hey", "merhaba", "selam", "ciao", "salve">>

OutOfScopeMessage ==
    "I'm designed to answer questions about AMIF grant documents. Please ask me about grant procedures, eligibility criteria, or application requirements."

InsufficientMessage == "I couldn't find sufficient information to answer your question."

\* faulty variant: no greeting short-circuit
QAExecuteNoGreetingCheck(st, llm) ==
    LET query == Get(st, "query", "")
        retrieved_documents == Get(st, "retrieved_documents", <<>>)
    IN  IF query = "" \/ retrieved_documents = <<>>
        THEN [st |-> Put(Put(st, "qa_response", InsufficientMessage), "qa_performed", TRUE),
              raised |-> FALSE, calls |-> 0]
        ELSE IF llm.ok
        THEN [st |-> Put(Put(st, "qa_response", llm.text), "qa_performed", TRUE),
              raised |-> FALSE, calls |-> 1]
        ELSE [st |-> st, raised |-> TRUE, calls |-> 1]

\* faulty variant: a failed llm.invoke is caught and answered with the fallback message
QAExecuteCatchesFailure(st, llm) ==
    LET query == Get(st, "query", "")
        retrieved_documents == Get(st, "retrieved_documents", <<>>)
    IN  IF Len(Split[Strip[query]]) < 3 /\ ContainsAny(Lower[query], simple_greetings)
        THEN [st |-> Put(Put(st, "qa_response", OutOfScopeMessage), "qa_performed", TRUE),
              raised |-> FALSE, calls |-> 0]
        ELSE IF query = "" \/ retrieved_documents = <<>>
        THEN [st |-> Put(Put(st, "qa_response", InsufficientMessage), "qa_performed", TRUE),
              raised |-> FALSE, calls |-> 0]
        ELSE IF llm.ok
        THEN [st |-> Put(Put(st, "qa_response", llm.text), "qa_performed", TRUE),
              raised |-> FALSE, calls |-> 1]
        ELSE [st |-> Put(Put(st, "qa_response", InsufficientMessage), "qa_performed", TRUE),
              raised |-> FALSE, calls |-> 1]

\* faulty variant: the LLM is asked even when no document was retrieved
QAExecuteNoDocumentCheck(st, llm) ==
    LET query == Get(st, "query", "")
    IN  IF Len(Split[Strip[query]]) < 3 /\ ContainsAny(Lower[query], simple_greetings)
        THEN [st |-> Put(Put(st, "qa_response", OutOfScopeMessage), "qa_performed", TRUE),
              raised |-> FALSE, calls |-> 0]
        ELSE IF query = ""
        THEN [st |-> Put(Put(st, "qa_response", InsufficientMessage), "qa_performed", TRUE),
              raised |-> FALSE, calls |-> 0]
        ELSE IF llm.ok
        THEN [st |-> Put(Put(st, "qa_response", llm.text), "qa_performed", TRUE),
              raised |-> FALSE, calls |-> 1]
        ELSE [st |-> st, raised |-> TRUE, calls |-> 1]

\* QAAgent.execute.  The prompt is built from the documents and the analysis and
\* changes nothing; llm answers the one llm.invoke call, whose exception is not caught.
QAExecute(st, llm) ==
    LET query == Get(st, "query", "")
        retrieved_documents == Get(st, "retrieved_documents", <<>>)
    IN  IF Len(Split[Strip[query]]) < 3 /\ ContainsAny(Lower[query], simple_greetings)
        THEN [st |-> Put(Put(st, "qa_response", OutOfScopeMessage), "qa_performed", TRUE),
              raised |-> FALSE, calls |-> 0]
        ELSE IF query = "" \/ retrieved_documents = <<>>
        THEN [st |-> Put(Put(st, "qa_response", InsufficientMessage), "qa_performed", TRUE),
              raised |-> FALSE, calls |-> 0]
        ELSE IF llm.ok
        THEN [st |-> Put(Put(st, "qa_response", llm.text), "qa_performed", TRUE),
              raised |-> FALSE, calls |-> 1]
        ELSE [st |-> st, raised |-> TRUE, calls |-> 1]

-----------------------------------------------------------------------------
(* Performance monitor (utils/performance_monitor.py).  start_query and    *)
(* end_query run under self._lock, so each is one atomic step; timestamps   *)
(* and durations are left out, the counters and the two dicts are kept.     *)

\* a dict without the key k: dict.pop(k)
Pop(d, k) == [x \in DOMAIN d \ {k} |-> d[x]]

\* QueryMetrics(query_id=..., query_text=..., start_time=...), success defaults to True
QueryMetrics(query_id, query_text) ==
    [query_id |-> query_id, query_text |-> query_text, success |-> TRUE]

\* PerformanceMonitor.__init__
PerformanceMonitorInit ==
    [stats |-> [total_queries |-> 0, successful_queries |-> 0, failed_queries |-> 0],
     active_queries |-> EmptyDict,
     query_metrics |-> EmptyDict]

\* PerformanceMonitor.start_query
start_query(monitor, query_id, query_text) ==
    [monitor EXCEPT
         !.active_queries = Put(@, query_id, QueryMetrics(query_id, query_text)),
         !.stats.total_queries = @ + 1]

\* PerformanceMonitor.end_query
end_query(monitor, query_id, success) ==
    IF query_id \notin DOMAIN monitor.active_queries
    THEN monitor
    ELSE LET query_metrics == [monitor.active_queries[query_id] EXCEPT !.success = success]
         IN  [monitor EXCEPT
                  !.active_queries = Pop(@, query_id),
                  !.query_metrics = Put(@, query_id, query_metrics),
                  !.stats.successful_queries = IF success THEN @ + 1 ELSE @,
                  !.stats.failed_queries = IF success THEN @ ELSE @ + 1]

-----------------------------------------------------------------------------
(* Inputs.                                                                 *)

DocWomen ==
    [content |-> "Eligibility: women and gender equality.",
     metadata |-> [grant_group |-> "AMIF-2025-TF2-AG-INTE-01-WOMEN",
                   filename |-> "AMIF-2025-TF2-AG-INTE-05-CHILDREN_call-fiche.pdf",
                   source |-> "data/raw/calls.pdf",
                   page_number |-> PyStr("1")]]

DocHealth ==
    [content |-> "Budget and medical cost.",
     metadata |-> [grant_group |-> "unknown_grant",
                   filename |-> "AMIF-2025-faq_amif-2025-tf2-ag-inte-02-health_faq.pdf",
                   source |-> "data/raw/amif-2025-tf2-ag-inte-02-health_faq.pdf",
                   page_number |-> PyStr("2")]]

DocDigital ==
    [content |-> "Online training.",
     metadata |-> [source |-> "data/raw/AMIF-2025-DIGITAL.pdf", page |-> PyInt(0)]]

DocNotes ==
    [content |-> "Child health and healthcare for children.",
     metadata |-> [filename |-> "notes.pdf", source |-> "calls",
                   page_number |-> PyStr("1")]]

DocMisc ==
    [content |-> "Deadline is near.",
     metadata |-> [filename |-> "misc.pdf"]]

DocBare == [content |-> "Women.", metadata |-> EmptyDict]

DocUniverse == {DocWomen, DocHealth, DocDigital, DocNotes, DocMisc, DocBare}

\* what the vector index holds: langchain Documents
AsDocument(d) == [page_content |-> d.content, metadata |-> d.metadata]
IndexDocs == {AsDocument(DocWomen), AsDocument(DocHealth), AsDocument(DocNotes)}

\* what the backend may answer to one search
SearchOutcomes ==
    {[ok |-> TRUE, hits |-> h] : h \in ListsUpTo(IndexDocs, MaxHits)}
        \cup {[ok |-> FALSE, hits |-> <<>>]}

\* the queries of the pipeline runs
Queries ==
    {"", "hello", "weather today", "merhaba hibe", "What is the grant budget",
     "Compare women and children grants"}

-----------------------------------------------------------------------------
(* One call of each agent's execute on the request state.                  *)

NoGoto == "none"

\* the retriever's execute with the index answering backend[i] to the i-th search
RetrieverStep(q, backend, fault) ==
    \E r \in {DocumentRetrieverExecute(state, q, backend, fault)} :
        /\ state' = r.st
        /\ prev' = state
        /\ executed' = Append(executed, "document_retriever")
        /\ raised' = FALSE
        /\ search_log' = r.log
        /\ relevant' = q.relevant
        /\ llm_calls' = 0
        /\ llm_log' = <<>>
        /\ UNCHANGED <<goto, grant_groups, index_answers,
                   twin, performance_tracker, requests>>

CallRetriever ==
    \E q \in {AnalyzeQuery(state)} :
        \E fault \in BOOLEAN :
        \E backend \in [1..SearchesNeeded(q) -> SearchOutcomes] :
            RetrieverStep(q, backend, fault)

CallCrossDocument ==
    \E fault \in BOOLEAN, llm1 \in LLMOutcomes, llm2 \in LLMOutcomes :
        \E r \in {CrossDocumentExecute(state, llm1, llm2, fault)} :
            /\ state' = r.st
            /\ prev' = state
            /\ executed' = Append(executed, "cross_document")
            /\ raised' = FALSE
            /\ llm_calls' = r.calls
            /\ llm_log' =
                   (IF r.calls = 2 THEN << [call |-> "comparison", answer |-> llm1] >>
                    ELSE <<>>)
                   \o (IF r.calls >= 1 THEN << [call |-> "synthesis", answer |-> llm2] >>
                       ELSE <<>>)
            /\ grant_groups' = IF r.grouped THEN r.groups ELSE grant_groups
            /\ UNCHANGED <<goto, search_log, relevant, index_answers,
                   twin, performance_tracker, requests>>

CallQA ==
    \E llm \in LLMOutcomes :
        \E r \in {QAExecute(state, llm)} :
            /\ state' = r.st
            /\ prev' = state
            /\ executed' = Append(executed, "qa_agent")
            /\ raised' = r.raised
            /\ llm_calls' = r.calls
            /\ llm_log' = IF r.calls = 1 THEN << [call |-> "qa", answer |-> llm] >> ELSE <<>>
            /\ UNCHANGED <<goto, search_log, relevant, grant_groups, index_answers,
                   twin, performance_tracker, requests>>

CallSourceTracker ==
    /\ state' = SourceTrackerExecute(state)
    /\ prev' = state
    /\ executed' = Append(executed, "source_tracker")
    /\ raised' = FALSE
    /\ llm_calls' = 0
    /\ llm_log' = <<>>
    /\ UNCHANGED <<goto, search_log, relevant, grant_groups, index_answers,
                   twin, performance_tracker, requests>>

-----------------------------------------------------------------------------
(* The pipeline: a request state is created, then the supervisor and the   *)
(* agent it routes to alternate until the supervisor routes to __end__.    *)
(* An exception that leaves an agent aborts the request.                   *)

Init ==
    /\ state = EmptyDict
    /\ prev = EmptyDict
    /\ pc = "idle"
    /\ executed = <<>>
    /\ goto = NoGoto
    /\ raised = FALSE
    /\ search_log = <<>>
    /\ llm_calls = 0
    /\ grant_groups = <<>>
    /\ relevant = "none"
    /\ llm_log = <<>>
    /\ index_answers = <<>>
    /\ twin = EmptyDict
    /\ performance_tracker = PerformanceMonitorInit
    /\ requests = <<>>

StartRequest ==
    /\ pc = "idle"
    /\ \E query \in Queries : state' = initialize_state(query)
    /\ pc' = "supervisor"
    /\ UNCHANGED <<prev, executed, goto, raised, search_log, llm_calls, llm_log, grant_groups,
                   relevant, index_answers,
                   twin, performance_tracker, requests>>

Supervisor ==
    /\ pc = "supervisor"
    /\ goto' = SupervisorExecute(state)
    /\ pc' = goto'
    /\ UNCHANGED <<state, prev, executed, raised, search_log, llm_calls, llm_log, grant_groups,
                   relevant, index_answers,
                   twin, performance_tracker, requests>>

RunRetriever == pc = "document_retriever" /\ CallRetriever /\ pc' = "supervisor"

RunCrossDocument == pc = "cross_document" /\ CallCrossDocument /\ pc' = "supervisor"

RunQA ==
    /\ pc = "qa_agent"
    /\ CallQA
    /\ pc' = IF raised' THEN "aborted" ELSE "supervisor"

RunSourceTracker == pc = "source_tracker" /\ CallSourceTracker /\ pc' = "supervisor"

Next ==
    \/ StartRequest
    \/ Supervisor
    \/ RunRetriever
    \/ RunCrossDocument
    \/ RunQA
    \/ RunSourceTracker

Spec == Init /\ [][Next]_vars

-----------------------------------------------------------------------------
(* The supervisor called directly on every combination of the four flags, *)
(* each flag absent, False or True.                                        *)

FlagStates == UNION {[present -> BOOLEAN] : present \in SUBSET Flags}

InitSupervisor ==
    /\ state \in FlagStates \cup {initialize_state(q) : q \in Queries}
    /\ prev = EmptyDict
    /\ pc = "direct"
    /\ executed = <<>>
    /\ goto = NoGoto
    /\ raised = FALSE
    /\ search_log = <<>>
    /\ llm_calls = 0
    /\ grant_groups = <<>>
    /\ relevant = "none"
    /\ llm_log = <<>>
    /\ index_answers = <<>>
    /\ twin = EmptyDict
    /\ performance_tracker = PerformanceMonitorInit
    /\ requests = <<>>

CallSupervisor ==
    /\ pc = "direct"
    /\ goto = NoGoto
    /\ goto' = SupervisorExecute(state)
    /\ UNCHANGED <<state, prev, pc, executed, raised, search_log, llm_calls, llm_log, grant_groups,
                   relevant, index_answers,
                   twin, performance_tracker, requests>>

SpecSupervisor == InitSupervisor /\ [][CallSupervisor]_vars

\* a flag counts as set only when the key is present and True
FlagSet(st, flag) == flag \in DOMAIN st /\ st[flag] = TRUE

PipelineOrder == <<"document_retriever", "cross_document", "qa_agent", "source_tracker">>

FlagOf ==
    [document_retriever |-> "retrieval_performed",
     cross_document |-> "cross_document_performed",
     qa_agent |-> "qa_performed",
     source_tracker |-> "source_tracking_performed"]

\* C1: the supervisor routes to the first component, in the order retriever,
\* cross-document, QA, source tracker, whose flag is false or missing, and to
\* __end__ exactly when all four flags are true.
C1_Routing ==
    goto # NoGoto =>
        /\ \A i \in 1..4 :
              (/\ ~FlagSet(state, FlagOf[PipelineOrder[i]])
               /\ \A j \in 1..(i - 1) : FlagSet(state, FlagOf[PipelineOrder[j]]))
                  => goto = PipelineOrder[i]
        /\ (goto = "__end__") <=> (\A flag \in Flags : FlagSet(state, flag))

C1_Witness ==
    /\ goto = "qa_agent"
    /\ "qa_performed" \notin DOMAIN state
    /\ FlagSet(state, "retrieval_performed")
    /\ FlagSet(state, "cross_document_performed")
    /\ FlagSet(state, "source_tracking_performed")

-----------------------------------------------------------------------------
(* Claims about the pipeline (Spec and LiveSpec).                          *)

\* every step of the pipeline runs to completion: the harness calls the
\* supervisor and the agents synchronously, one after the other
LiveSpec == Spec /\ WF_vars(Next)

LastExecuted == executed[Len(executed)]

AllFlagsSet(st) == \A flag \in Flags : FlagSet(st, flag)

\* C2: within one request the agents execute in the order document_retriever,
\* cross_document, qa_agent, source_tracker, and none executes twice.
C2_ExecutionOrder ==
    /\ Len(executed) <= 4
    /\ \A i \in 1..Len(executed) : executed[i] = PipelineOrder[i]

C2_Witness ==
    executed = <<"document_retriever", "cross_document", "qa_agent", "source_tracker">>

\* C3: a request in which the QA agent's LLM call does not raise reaches
\* __end__, and a request at __end__ has made exactly four agent executions
\* and has all four flags true.
C3_Termination ==
    /\ ([](pc # "aborted")) => <>(pc = "__end__")
    /\ [](pc = "__end__" => (Len(executed) = 4 /\ AllFlagsSet(state)))

C3_Witness == pc = "__end__" /\ Len(executed) = 4 /\ AllFlagsSet(state)

\* C4: whenever an agent's execute has returned, on any path through it, the
\* agent's own flag is true in the state it returned.
C4_OwnFlagSet ==
    (executed # <<>> /\ ~raised) => FlagSet(state, FlagOf[LastExecuted])

\* the cross-document agent returned through its except block
C4_Witness ==
    /\ executed # <<>>
    /\ LastExecuted = "cross_document"
    /\ ~raised
    /\ "analysis" \in DOMAIN state["cross_document_analysis"]
    /\ state["cross_document_analysis"]["analysis"] = "Analiz hatasî: fault"
    /\ FlagSet(state, "cross_document_performed")

\* the flag the component at harness position p may write
OwnFlags(p) == IF p \in DOMAIN FlagOf THEN {FlagOf[p]} ELSE {}

\* C5: no step takes a flag from true to false, and a step changes no flag
\* other than the one that belongs to the component taking the step (the
\* supervisor changes none).
C5_FlagsMonotonic ==
    [][\A flag \in Flags :
          /\ FlagSet(state, flag) => FlagSet(state', flag)
          /\ flag \notin OwnFlags(pc) =>
                 Get(state', flag, FALSE) = Get(state, flag, FALSE)]_vars

C5_Witness ==
    /\ Len(executed) = 3
    /\ FlagSet(state, "retrieval_performed")
    /\ FlagSet(state, "cross_document_performed")
    /\ FlagSet(state, "qa_performed")
    /\ ~FlagSet(state, "source_tracking_performed")

-----------------------------------------------------------------------------
(* The cross-document agent called directly on an arbitrary document list. *)

CrossQueries == {"", "What is the grant budget"}

InitCross ==
    /\ state \in {[query |-> q, retrieved_documents |-> docs] :
                      q \in CrossQueries, docs \in ListsUpTo(DocUniverse, MaxDocs)}
    /\ prev = EmptyDict
    /\ pc = "direct"
    /\ executed = <<>>
    /\ goto = NoGoto
    /\ raised = FALSE
    /\ search_log = <<>>
    /\ llm_calls = 0
    /\ grant_groups = <<>>
    /\ relevant = "none"
    /\ llm_log = <<>>
    /\ index_answers = <<>>
    /\ twin = EmptyDict
    /\ performance_tracker = PerformanceMonitorInit
    /\ requests = <<>>

CallCrossDocumentDirect ==
    /\ pc = "direct"
    /\ executed = <<>>
    /\ CallCrossDocument
    /\ UNCHANGED pc

SpecCross == InitCross /\ [][CallCrossDocumentDirect]_vars

\* the call went through _extract_grant_groups and stored its result
Grouped ==
    /\ executed = <<"cross_document">>
    /\ "grant_groups" \in DOMAIN state["cross_document_analysis"]

\* how many times x occurs in the list seq
Count(seq, x) == Cardinality({i \in 1..Len(seq) : seq[i] = x})

\* the documents whose grant cannot be determined: no usable grant_group, no
\* grant id in the file name, no grant keyword in the content (or no file name)
Undetermined == {DocMisc, DocBare}

\* C6: the grant groups are a partition of the input list: keys are distinct,
\* no group is empty, groups are pairwise disjoint, every input document is in
\* a group as often as it is in the input and nothing else is, and a document
\* whose grant cannot be determined is in the group UNKNOWN.
C6_Partition ==
    Grouped =>
        LET docs == state["retrieved_documents"]
            G == grant_groups
            n == Len(G)
        IN  /\ \A i, j \in 1..n : i # j => G[i][1] # G[j][1]
            /\ \A i \in 1..n : G[i][2] # <<>>
            /\ \A i, j \in 1..n : i # j => Range(G[i][2]) \cap Range(G[j][2]) = {}
            /\ \A i \in 1..n : Range(G[i][2]) \subseteq Range(docs)
            /\ \A x \in Range(docs) :
                  \E i \in 1..n : Count(G[i][2], x) = Count(docs, x)
            /\ \A x \in Undetermined \cap Range(docs) :
                  \E i \in 1..n : G[i][1] = "UNKNOWN" /\ x \in Range(G[i][2])

C6_Witness ==
    /\ Grouped
    /\ state["retrieved_documents"] = <<DocMisc, DocWomen, DocBare>>
    /\ grant_groups = << <<"UNKNOWN", <<DocMisc, DocBare>> >>,
                         <<"AMIF-2025-TF2-AG-INTE-01-WOMEN", <<DocWomen>> >> >>

\* the orderings of a list of n elements
Perms(n) == {p \in [1..n -> 1..n] : \A i, j \in 1..n : i # j => p[i] # p[j]}

Reorder(seq, p) == [i \in 1..Len(seq) |-> seq[p[i]]]

\* the position of the first element of seq that is in S
FirstIn(seq, S) == CHOOSE i \in 1..Len(seq) : seq[i] \in S /\ \A j \in 1..(i - 1) : seq[j] \notin S

\* C7: grouping any reordering of the input gives the same group keys and,
\* under each key, the same members; the members of a group are in input
\* order, and so are the keys (by first member).
C7_OrderIndependent ==
    Grouped =>
        LET docs == state["retrieved_documents"]
            G == grant_groups
        IN  /\ \A p \in Perms(Len(docs)) :
                  LET G2 == ExtractGrantGroups(Reorder(docs, p))
                  IN  /\ Range(Keys(G2)) = Range(Keys(G))
                      /\ \A i \in 1..Len(G), j \in 1..Len(G2) :
                            G[i][1] = G2[j][1] =>
                                \A x \in Range(docs) :
                                    Count(G[i][2], x) = Count(G2[j][2], x)
            /\ \A i \in 1..Len(G) :
                  G[i][2] = SelectSeq(docs, LAMBDA x : x \in Range(G[i][2]))
            /\ \A i, j \in 1..Len(G) :
                  i < j => FirstIn(docs, Range(G[i][2])) < FirstIn(docs, Range(G[j][2]))

C7_Witness ==
    /\ Grouped
    /\ state["retrieved_documents"] = <<DocNotes, DocWomen, DocNotes>>
    /\ Len(grant_groups) = 2
    /\ grant_groups[1][2] = <<DocNotes, DocNotes>>

-----------------------------------------------------------------------------
(* The source tracker called directly, up to MaxCalls times in a row, on a  *)
(* state that may or may not hold documents and an answer.                  *)

Answers == {"", InsufficientMessage, "LLM text"}

TrackerStates ==
    LET lists == ListsUpTo(DocUniverse, MaxDocs)
    IN  {EmptyDict}
            \cup {[retrieved_documents |-> docs] : docs \in lists}
            \cup {[qa_response |-> a] : a \in Answers}
            \cup {[retrieved_documents |-> docs, qa_response |-> a] :
                      docs \in lists, a \in Answers}

InitTracker ==
    /\ state \in TrackerStates
    /\ prev = EmptyDict
    /\ pc = "direct"
    /\ executed = <<>>
    /\ goto = NoGoto
    /\ raised = FALSE
    /\ search_log = <<>>
    /\ llm_calls = 0
    /\ grant_groups = <<>>
    /\ relevant = "none"
    /\ llm_log = <<>>
    /\ index_answers = <<>>
    /\ twin = EmptyDict
    /\ performance_tracker = PerformanceMonitorInit
    /\ requests = <<>>

CallSourceTrackerDirect ==
    /\ pc = "direct"
    /\ Len(executed) < MaxCalls
    /\ CallSourceTracker
    /\ UNCHANGED pc

SpecTracker == InitTracker /\ [][CallSourceTrackerDirect]_vars

\* the source tracker has run, and on a state that already held its own output
\* when it has run more than once
Tracked == executed # <<>> /\ LastExecuted = "source_tracker"

\* C8: the citation list holds one record per distinct (clean_source,
\* page_number) key at most: its records come from documents of the input with
\* pairwise different keys; it is never longer than the input; and a second
\* run on the same documents yields an equal list.
C8_NoDuplicateCitations ==
    Tracked =>
        LET docs == Get(state, "retrieved_documents", <<>>)
            sources == state["sources"]
        IN  /\ Len(sources) <= Len(docs)
            /\ \E f \in [1..Len(sources) -> 1..Len(docs)] :
                  /\ \A i \in 1..Len(sources) : sources[i] = CitationRecord(docs[f[i]])
                  /\ \A i, j \in 1..Len(sources) :
                        i # j => SourceKey(docs[f[i]]) # SourceKey(docs[f[j]])
            /\ Len(executed) >= 2 => state["sources"] = prev["sources"]

\* two documents with one key, tracked twice
C8_Witness ==
    /\ Tracked
    /\ Len(executed) = 2
    /\ Get(state, "retrieved_documents", <<>>) = <<DocWomen, DocHealth, DocNotes>>
    /\ Len(state["sources"]) = 2
    /\ state["sources"] = prev["sources"]

\* C9: on an empty (or absent) document list the source tracker returns an
\* empty source list, passes the answer through unchanged (the empty string
\* when no answer was written) and sets its flag.
C9_EmptyInput ==
    (Tracked /\ Get(prev, "retrieved_documents", <<>>) = <<>>) =>
        /\ state["sources"] = <<>>
        /\ state["cited_response"] = Get(prev, "qa_response", "")
        /\ FlagSet(state, "source_tracking_performed")

C9_Witness ==
    /\ Tracked
    /\ Len(executed) = 1
    /\ "retrieved_documents" \in DOMAIN prev
    /\ prev["retrieved_documents"] = <<>>
    /\ "qa_response" \in DOMAIN prev
    /\ prev["qa_response"] = InsufficientMessage
    /\ state["cited_response"] = InsufficientMessage
    /\ state["sources"] = <<>>

-----------------------------------------------------------------------------
(* The document retriever called directly on a query: greetings of two     *)
(* words, the same greetings inside longer sentences, and the pipeline's   *)
(* queries.                                                                *)

\* one-word greetings in Turkish, English and Italian
GreetingWords == {"merhaba", "selam", "hello", "Hello", "hi", "hey", "thanks", "ciao", "salve"}

\* greetings of exactly two words
TwoWordGreetings ==
    {a \o " " \o b : a, b \in GreetingWords}
        \cup {"good morning", "thank you", "see you", "iyi akþamlar", "hoþça kal",
              "Good Evening"}

\* what follows a greeting in a longer sentence
SentenceTails ==
    {"about the grant budget", "proje baþvuru belgeleri nelerdir",
     "quali sono i criteri amif", "and grant", "how is the weather today"}

GreetingSentences == {g \o " " \o t : g \in TwoWordGreetings, t \in SentenceTails}

\* a greeting and a domain keyword in two words
ShortKeywordGreetings ==
    {"merhaba proje", "Selam AMIF", "günaydîn bütçe", "hello grant", "thanks budget",
     "ciao criteri"}

RetrieverQueries ==
    TwoWordGreetings \cup GreetingSentences \cup ShortKeywordGreetings \cup Queries

InitRetriever ==
    /\ state \in {[query |-> q] : q \in RetrieverQueries}
    /\ prev = EmptyDict
    /\ pc = "direct"
    /\ executed = <<>>
    /\ goto = NoGoto
    /\ raised = FALSE
    /\ search_log = <<>>
    /\ llm_calls = 0
    /\ grant_groups = <<>>
    /\ relevant = "none"
    /\ llm_log = <<>>
    /\ index_answers = <<>>
    /\ twin = EmptyDict
    /\ performance_tracker = PerformanceMonitorInit
    /\ requests = <<>>

CallRetrieverDirect ==
    /\ pc = "direct"
    /\ executed = <<>>
    /\ CallRetriever
    /\ UNCHANGED pc

SpecRetriever == InitRetriever /\ [][CallRetrieverDirect]_vars

\* the query contains a domain keyword (any entry of the two keyword lists)
HasDomainKeyword(query) ==
    \E i \in 1..Len(grant_keywords_tr \o grant_keywords_en) :
        Contains[Lower[query], (grant_keywords_tr \o grant_keywords_en)[i]]

\* C10: the relevance filter rejects a greeting of two words, in any of the
\* three languages, and accepts a sentence of five words or more that
\* contains such a greeting and a domain keyword.
C10_GreetingFilter ==
    executed = <<"document_retriever">> =>
        LET query == state["query"]
        IN  /\ query \in TwoWordGreetings => relevant = "no"
            /\ (/\ \E g \in TwoWordGreetings : Contains[query, g]
                /\ Len(Split[query]) >= 5
                /\ HasDomainKeyword(query)) => relevant = "yes"

C10_Witness ==
    /\ executed = <<"document_retriever">>
    /\ state["query"] = "merhaba selam proje baþvuru belgeleri nelerdir"
    /\ relevant = "yes"
    /\ FlagSet(state, "retrieval_performed")

-----------------------------------------------------------------------------
(* The document retriever called directly on a query that searches, the    *)
(* index holding two chunks of one source file and one chunk of another,   *)
(* and its answer to each search of the call fixed in advance.             *)

ChunkA1 ==
    [page_content |-> "Women grant: eligibility.",
     metadata |-> [source |-> "data/raw/women.pdf", page |-> PyInt(1)]]

ChunkA2 ==
    [page_content |-> "Women grant: budget.",
     metadata |-> [source |-> "data/raw/women.pdf", page |-> PyInt(2)]]

ChunkB ==
    [page_content |-> "Children grant: eligibility.",
     metadata |-> [source |-> "data/raw/children.pdf", page |-> PyInt(1)]]

MultiIndexDocs == {ChunkA1, ChunkA2, ChunkB}

MultiOutcomes ==
    {[ok |-> TRUE, hits |-> h] : h \in ListsUpTo(MultiIndexDocs, MaxHits)}
        \cup {[ok |-> FALSE, hits |-> <<>>]}

\* queries that name two grant types
MultiQueries == {"Compare women and children grants"}

\* queries that pass the relevance filter
SearchQueries == MultiQueries \cup {"What is the grant budget"}

InitSearch ==
    /\ \E q \in SearchQueries :
          /\ state = [query |-> q]
          /\ index_answers \in
                 [1..SearchesNeeded(AnalyzeQuery([query |-> q])) -> MultiOutcomes]
    /\ twin = EmptyDict
    /\ performance_tracker = PerformanceMonitorInit
    /\ requests = <<>>
    /\ prev = EmptyDict
    /\ pc = "direct"
    /\ executed = <<>>
    /\ goto = NoGoto
    /\ raised = FALSE
    /\ search_log = <<>>
    /\ llm_calls = 0
    /\ grant_groups = <<>>
    /\ relevant = "none"
    /\ llm_log = <<>>

CallRetrieverOnAnswers ==
    /\ pc = "direct"
    /\ executed = <<>>
    /\ \E q \in {AnalyzeQuery(state)} :
          \E fault \in BOOLEAN : RetrieverStep(q, index_answers, fault)
    /\ UNCHANGED pc

SpecSearch == InitSearch /\ [][CallRetrieverOnAnswers]_vars

\* the call went through _perform_multi_search and returned its result
MultiSearched ==
    /\ executed = <<"document_retriever">>
    /\ Len(search_log) = 3
    /\ "grant_types_detected" \in DOMAIN state

\* what the three searches returned, main search first, as document dicts
AllResults ==
    DocDicts(SearchDocuments(index_answers[1], 6)
                 \o SearchDocuments(index_answers[2], 4)
                 \o SearchDocuments(index_answers[3], 4))

SourceOf(doc) == Get(doc.metadata, "source", "")

\* positions of AllResults that hold the first result of their source
FirstSeen ==
    {i \in 1..Len(AllResults) :
        \A j \in 1..(i - 1) : SourceOf(AllResults[j]) # SourceOf(AllResults[i])}

\* C11: the merged result of the multi-search holds each source once, and it
\* is the list of first-seen results in the order main search, then the
\* per-type searches in their order; a source returned by the main search
\* keeps the main search's document and its place among the main results.
C11_MultiSearchMerge ==
    MultiSearched =>
        LET merged == state["retrieved_documents"]
        IN  /\ \A i, j \in 1..Len(merged) :
                   SourceOf(merged[i]) = SourceOf(merged[j]) => i = j
            /\ Len(merged) = Cardinality(FirstSeen)
            /\ \A i \in FirstSeen :
                   merged[Cardinality({j \in FirstSeen : j <= i})] = AllResults[i]

\* the main search returned the second chunk of a file, a per-type search its
\* first chunk and a chunk of another file
C11_Witness ==
    /\ MultiSearched
    /\ index_answers[1] = [ok |-> TRUE, hits |-> <<ChunkA2>>]
    /\ index_answers[2] = [ok |-> TRUE, hits |-> <<ChunkA1, ChunkB>>]
    /\ state["retrieved_documents"] = <<DocDict(ChunkA2), DocDict(ChunkB)>>

\* the i-th search of the call failed inside the backend
SearchFailed(i) == ~index_answers[i].ok

Searched == executed = <<"document_retriever">> /\ index_answers # <<>>

\* the statement of C12 as the specification words it: any failed search
\* leaves the document list empty
C12_AnyFailureGivesEmpty ==
    (Searched /\ \E i \in DOMAIN index_answers : SearchFailed(i)) =>
        /\ ~raised
        /\ state["retrieved_documents"] = <<>>
        /\ FlagSet(state, "retrieval_performed")
        /\ SupervisorExecute(state) = "cross_document"

\* C12 (amended): a search that fails inside the backend never leaves execute
\* as an exception; the retriever returns with its flag true, so the
\* supervisor routes to cross_document, and the document list is empty when
\* every search of the call failed (always so for the single search).  In the
\* multi-search a failed search only contributes no documents.
C12_SearchFailureContained ==
    (Searched /\ \E i \in DOMAIN index_answers : SearchFailed(i)) =>
        /\ ~raised
        /\ "retrieved_documents" \in DOMAIN state
        /\ FlagSet(state, "retrieval_performed")
        /\ SupervisorExecute(state) = "cross_document"
        /\ (\A i \in DOMAIN index_answers : SearchFailed(i)) =>
               state["retrieved_documents"] = <<>>
        /\ \A d \in Range(state["retrieved_documents"]) :
               \E i \in DOMAIN index_answers :
                   /\ ~SearchFailed(i)
                   /\ d \in Range(DocDicts(index_answers[i].hits))

\* the single search failed
C12_Witness ==
    /\ Searched
    /\ index_answers = << [ok |-> FALSE, hits |-> <<>>] >>
    /\ state["retrieved_documents"] = <<>>
    /\ FlagSet(state, "retrieval_performed")
    /\ search_log = << <<"What is the grant budget", 8>> >>

-----------------------------------------------------------------------------
(* Claims about a request whose query the relevance filter rejects.        *)

\* C13: once the relevance filter has rejected the query, the retriever has
\* issued no search and has returned the empty document list with its flag
\* true; for the query "hello" the QA agent then writes the fixed out-of-scope
\* message and makes no LLM call.
C13_RejectedQuerySkipsSearch ==
    /\ (executed # <<>> /\ relevant = "no") =>
           /\ search_log = <<>>
           /\ state["retrieved_documents"] = <<>>
           /\ FlagSet(state, "retrieval_performed")
    /\ (executed # <<>> /\ state["query"] = "hello") =>
           /\ relevant = "no"
           /\ LastExecuted = "qa_agent" =>
                  /\ ~raised
                  /\ llm_calls = 0
                  /\ state["qa_response"] = OutOfScopeMessage
                  /\ FlagSet(state, "qa_performed")

C13_Witness ==
    /\ executed = <<"document_retriever", "cross_document", "qa_agent">>
    /\ state["query"] = "hello"
    /\ relevant = "no"
    /\ search_log = <<>>
    /\ llm_calls = 0
    /\ state["qa_response"] = OutOfScopeMessage

-----------------------------------------------------------------------------
(* _detect_language called directly on texts of up to MaxWords words: a    *)
(* word of each indicator list, words of several lists ("in" is in all     *)
(* three, "da" in the Turkish and the Italian one), a capitalised word and *)
(* a word of no list.                                                      *)

DetectWords == {"nedir", "what", "che", "in", "da", "The", "zzz"}

JoinWords[ws \in Any] ==
    IF ws = <<>> THEN ""
    ELSE IF Len(ws) = 1 THEN ws[1]
    ELSE ws[1] \o " " \o JoinWords[Tail(ws)]

DetectTexts == {JoinWords[ws] : ws \in ListsUpTo(DetectWords, MaxWords)}

InitDetect ==
    /\ state \in {[query |-> t] : t \in DetectTexts}
    /\ prev = EmptyDict
    /\ pc = "direct"
    /\ executed = <<>>
    /\ goto = NoGoto
    /\ raised = FALSE
    /\ search_log = <<>>
    /\ llm_calls = 0
    /\ grant_groups = <<>>
    /\ relevant = "none"
    /\ llm_log = <<>>
    /\ index_answers = <<>>
    /\ twin = EmptyDict
    /\ performance_tracker = PerformanceMonitorInit
    /\ requests = <<>>

\* detected_language = self._detect_language(query)
CallDetectLanguage ==
    /\ pc = "direct"
    /\ state' = Put(state, "detected_language", DetectLanguage(state["query"]))
    /\ prev' = state
    /\ pc' = "returned"
    /\ UNCHANGED <<executed, goto, raised, search_log, llm_calls, llm_log, grant_groups, relevant,
                   index_answers,
                   twin, performance_tracker, requests>>

SpecDetect == InitDetect /\ [][CallDetectLanguage]_vars

\* the languages in tie-break order and their indicator lists
LanguagePriority == <<"turkish", "english", "italian">>

IndicatorsOf ==
    [turkish |-> turkish_indicators, english |-> english_indicators,
     italian |-> italian_indicators]

\* the keyword-hit count of a language on a text
Hits(text, language) == Score(Split[Lower[text]], IndicatorsOf[language])

\* C14: the detected language has a keyword-hit count no lower than any other
\* language and strictly higher than every language before it in the order
\* Turkish, English, Italian; with no hit at all (the empty text included)
\* the result is Turkish.
C14_LanguageTieBreak ==
    pc = "returned" =>
        LET text == state["query"]
            detected == state["detected_language"]
        IN  \E p \in 1..3 :
              /\ detected = LanguagePriority[p]
              /\ \A o \in 1..3 : Hits(text, LanguagePriority[o]) <= Hits(text, detected)
              /\ \A h \in 1..(p - 1) : Hits(text, LanguagePriority[h]) < Hits(text, detected)
              /\ (\A o \in 1..3 : Hits(text, LanguagePriority[o]) = 0) => p = 1

\* English and Italian tie at the top: English is chosen
C14_Witness ==
    /\ pc = "returned"
    /\ state["query"] = "what che"
    /\ Hits("what che", "english") = 1
    /\ Hits("what che", "italian") = 1
    /\ Hits("what che", "turkish") = 0
    /\ state["detected_language"] = "english"

-----------------------------------------------------------------------------
(* Claims about LLM failures inside the cross-document agent (SpecCross).  *)

\* the answers of the failed llm.invoke calls of kind call in the last call
FailedCalls(call) ==
    {llm_log[i].answer : i \in {j \in 1..Len(llm_log) :
                                    llm_log[j].call = call /\ ~llm_log[j].answer.ok}}

\* C15: a failed LLM call of the cross-document agent does not leave execute
\* as an exception: a failed comparison call gives a comparison tagged
\* "error" that carries the exception message, a failed synthesis call gives
\* an error string with the message as synthesized answer, the agent's flag is
\* true and the supervisor, retrieval being done, routes to the QA agent.
C15_LLMFailureContained ==
    (executed = <<"cross_document">>
        /\ FailedCalls("comparison") \cup FailedCalls("synthesis") # {}) =>
        /\ ~raised
        /\ FlagSet(state, "cross_document_performed")
        /\ SupervisorExecute(Put(state, "retrieval_performed", TRUE)) = "qa_agent"
        /\ \A llm \in FailedCalls("comparison") :
               /\ state["cross_document_analysis"]["comparison"]["comparison_type"] = "error"
               /\ state["cross_document_analysis"]["comparison"]["analysis"]
                      = "Karþîlaþtîrma hatasî: " \o llm.text
        /\ \A llm \in FailedCalls("synthesis") :
               state["cross_document_analysis"]["synthesized_answer"]
                   = "Belge sentezi hatasî: " \o llm.text

\* both calls failed on documents of two grant groups
C15_Witness ==
    /\ executed = <<"cross_document">>
    /\ Len(llm_log) = 2
    /\ FailedCalls("comparison") # {}
    /\ FailedCalls("synthesis") # {}
    /\ state["cross_document_analysis"]["comparison"]["comparison_type"] = "error"
    /\ state["cross_document_analysis"]["total_grants_analyzed"] = 2
    /\ FlagSet(state, "cross_document_performed")

-----------------------------------------------------------------------------
(* Claims about an LLM failure inside the QA agent (Spec).                 *)

\* C16: a failed llm.invoke of the QA agent leaves execute as an exception
\* with the state as it was, qa_response and qa_performed unwritten; the
\* request is then aborted and the source tracker never executes for it.
C16_QAFailurePropagates ==
    /\ (executed # <<>> /\ LastExecuted = "qa_agent" /\ FailedCalls("qa") # {}) =>
           /\ raised
           /\ state = prev
           /\ state["qa_response"] = ""
           /\ ~FlagSet(state, "qa_performed")
           /\ pc = "aborted"
    /\ raised => pc = "aborted"
    /\ pc = "aborted" =>
           /\ executed = <<"document_retriever", "cross_document", "qa_agent">>
           /\ ~ENABLED Next

C16_Witness ==
    /\ pc = "aborted"
    /\ raised
    /\ executed = <<"document_retriever", "cross_document", "qa_agent">>
    /\ llm_log = << [call |-> "qa", answer |-> [ok |-> FALSE, text |-> "rate limit"]] >>
    /\ state["retrieved_documents"] # <<>>
    /\ ~FlagSet(state, "qa_performed")

-----------------------------------------------------------------------------
(* Claims about a request that retrieved no document (Spec).               *)

\* the last call was agent's execute on a state without retrieved documents
RanWithoutDocuments(agent) ==
    /\ executed # <<>>
    /\ LastExecuted = agent
    /\ Get(prev, "retrieved_documents", <<>>) = <<>>

\* C17: when no document was retrieved, the cross-document agent and the QA
\* agent make no LLM call and do not raise: the first writes the placeholder
\* analysis, the second one of its two fixed messages, and each sets its flag.
C17_NoDocumentsNoLLM ==
    /\ RanWithoutDocuments("cross_document") =>
           /\ llm_calls = 0 /\ llm_log = <<>>
           /\ ~raised
           /\ state["cross_document_analysis"] = [analysis |-> "Yeterli belge bulunamadî"]
           /\ FlagSet(state, "cross_document_performed")
    /\ RanWithoutDocuments("qa_agent") =>
           /\ llm_calls = 0 /\ llm_log = <<>>
           /\ ~raised
           /\ state["qa_response"] \in {OutOfScopeMessage, InsufficientMessage}
           /\ FlagSet(state, "qa_performed")

\* the query passed the filter, its search found nothing, the QA agent answered
C17_Witness ==
    /\ RanWithoutDocuments("qa_agent")
    /\ relevant = "yes"
    /\ search_log = << <<"What is the grant budget", 8>> >>
    /\ state["cross_document_analysis"] = [analysis |-> "Yeterli belge bulunamadî"]
    /\ state["qa_response"] = InsufficientMessage

-----------------------------------------------------------------------------
(* Frame of the request fields (Spec).                                     *)

\* C18: no step of a created request changes query, and no step other than
\* the retriever's changes retrieved_documents; the source tracker therefore
\* reads the documents the QA agent read.
C18_QueryAndDocumentsFrame ==
    [][pc # "idle" =>
          /\ "query" \in DOMAIN state' /\ state'["query"] = state["query"]
          /\ pc # "document_retriever" =>
                 /\ "retrieved_documents" \in DOMAIN state'
                 /\ state'["retrieved_documents"] = state["retrieved_documents"]]_vars

\* the tracker has cited the documents that the QA agent answered from
C18_Witness ==
    /\ executed = <<"document_retriever", "cross_document", "qa_agent", "source_tracker">>
    /\ state["retrieved_documents"] # <<>>
    /\ state["retrieved_documents"] = prev["retrieved_documents"]
    /\ state["qa_response"] = "LLM text"
    /\ Len(state["sources"]) >= 1
    /\ state["query"] = "What is the grant budget"

-----------------------------------------------------------------------------
(* Claims about the greeting rule of the relevance filter (SpecRetriever). *)

\* the greeting list that belongs to a detected language
GreetingListOf(language) ==
    IF language = "turkish" THEN irrelevant_patterns_tr
    ELSE IF language = "english" THEN irrelevant_patterns_en
    ELSE <<>>

\* C19: a query of fewer than three words that contains a phrase of the
\* greeting list of its detected language is judged not relevant, also when
\* it contains a domain keyword; Turkish queries with the Turkish list
\* included.
C19_GreetingRulePrecedence ==
    executed = <<"document_retriever">> =>
        LET query_lower == Strip[Lower[state["query"]]]
        IN  (/\ state["query"] # ""
             /\ Len(Split[query_lower]) < 3
             /\ ContainsAny(query_lower, GreetingListOf(state["detected_language"])))
                => relevant = "no"

-----------------------------------------------------------------------------
(* Claims about the detected_language field (Spec).                        *)

\* the tags _detect_language returns
LanguageTags == {"turkish", "english", "italian"}

\* C20: once the retriever has run, detected_language is one of the tags
\* turkish, english, italian for every query, the empty one included, and no
\* later step changes it.
C20_DetectedLanguageClosed ==
    /\ [](executed # <<>> =>
              /\ "detected_language" \in DOMAIN state
              /\ state["detected_language"] \in LanguageTags)
    /\ [][executed # <<>> => state'["detected_language"] = state["detected_language"]]_vars

-----------------------------------------------------------------------------
(* The document retriever called directly on relevant queries that name    *)
(* zero, one, two and three grant categories, each search answered by no   *)
(* hit, one hit or a failure.                                              *)

CountQueries ==
    {"What is the grant budget", "What is the women grant budget",
     "Compare women and children grants", "Compare women children and health grants"}

CountOutcomes ==
    {[ok |-> TRUE, hits |-> <<>>], [ok |-> TRUE, hits |-> <<ChunkA1>>],
     [ok |-> FALSE, hits |-> <<>>]}

InitSearchCount ==
    /\ \E q \in CountQueries :
          /\ state = [query |-> q]
          /\ index_answers \in
                 [1..SearchesNeeded(AnalyzeQuery([query |-> q])) -> CountOutcomes]
    /\ twin = EmptyDict
    /\ performance_tracker = PerformanceMonitorInit
    /\ requests = <<>>
    /\ prev = EmptyDict
    /\ pc = "direct"
    /\ executed = <<>>
    /\ goto = NoGoto
    /\ raised = FALSE
    /\ search_log = <<>>
    /\ llm_calls = 0
    /\ grant_groups = <<>>
    /\ relevant = "none"
    /\ llm_log = <<>>

SpecSearchCount == InitSearchCount /\ [][CallRetrieverOnAnswers]_vars

\* execute returned through the end of its try block (line 277)
SearchCompleted ==
    /\ executed = <<"document_retriever">>
    /\ relevant = "yes"
    /\ "grant_types_detected" \in DOMAIN state

\* C21: for a relevant query whose n detected grant categories are types, the
\* searches issued are, in order, the raw query with k = 8 alone when n < 2,
\* and the raw query with k = 6 followed by one search with k = 4 per
\* category, in the order of the categories, when n >= 2.
C21_SearchCount ==
    SearchCompleted =>
        LET types == state["grant_types_detected"]
            n == Len(types)
        IN  IF n < 2
            THEN search_log = << <<state["query"], 8>> >>
            ELSE /\ Len(search_log) = 1 + n
                 /\ search_log[1] = <<state["query"], 6>>
                 /\ \A i \in 1..n :
                        search_log[i + 1] =
                            <<"AMIF-2025 " \o Upper[types[i]]
                                  \o " grant eligibility criteria budget", 4>>

\* three categories, four searches
C21_Witness ==
    /\ SearchCompleted
    /\ state["grant_types_detected"] = <<"women", "children", "health">>
    /\ Len(search_log) = 4
    /\ search_log[4] = <<"AMIF-2025 HEALTH grant eligibility criteria budget", 4>>

-----------------------------------------------------------------------------
(* Claims about the comparison step of the cross-document agent            *)
(* (SpecCross).                                                            *)

\* the llm.invoke calls of kind call made by the last call
CallsOf(call) == {i \in 1..Len(llm_log) : llm_log[i].call = call}

\* C22: the comparison makes no LLM call and returns "single_grant" for fewer
\* than two groups; for two or more groups it makes exactly one LLM call and,
\* when that call succeeds, returns "cross_grant" with the LLM's text, the
\* list of all group keys and the number of retrieved documents.
C22_Comparison ==
    Grouped =>
        LET comparison == state["cross_document_analysis"]["comparison"]
        IN  /\ Len(grant_groups) < 2 =>
                   /\ CallsOf("comparison") = {}
                   /\ comparison = [comparison_type |-> "single_grant",
                                    analysis |-> "Tek grant analizi"]
            /\ Len(grant_groups) >= 2 =>
                   /\ Cardinality(CallsOf("comparison")) = 1
                   /\ \A i \in CallsOf("comparison") :
                          llm_log[i].answer.ok =>
                              comparison =
                                  [comparison_type |-> "cross_grant",
                                   analysis |-> llm_log[i].answer.text,
                                   grants_compared |-> Keys(grant_groups),
                                   total_documents |-> Len(state["retrieved_documents"])]

\* three documents in two groups, compared by one successful LLM call
C22_Witness ==
    /\ Grouped
    /\ Len(grant_groups) = 2
    /\ Len(state["retrieved_documents"]) = 3
    /\ state["cross_document_analysis"]["comparison"]["comparison_type"] = "cross_grant"
    /\ state["cross_document_analysis"]["comparison"]["total_documents"] = 3

-----------------------------------------------------------------------------
(* Claims about the grouping rules (SpecCross).                            *)

\* the key of the group that holds doc
GroupOf(doc) ==
    LET i == CHOOSE i \in 1..Len(grant_groups) : doc \in Range(grant_groups[i][2])
    IN  grant_groups[i][1]

\* metadata.get('filename', '') or metadata.get('source', '')
FilenameOf(doc) ==
    LET metadata == Get(doc, "metadata", EmptyDict)
    IN  IF Get(metadata, "filename", "") # "" THEN Get(metadata, "filename", "")
        ELSE Get(metadata, "source", "")

\* the metadata's grant_group is present and is not the sentinel
HasGrantGroup(doc) ==
    LET metadata == Get(doc, "metadata", EmptyDict)
    IN  /\ "grant_group" \in DOMAIN metadata
        /\ metadata["grant_group"] # "unknown_grant"

\* C23: per document the first matching rule wins: a grant_group other than
\* the sentinel is the key verbatim; otherwise a filename that matches a
\* grant pattern gives the uppercased first match of the full pattern when
\* the full pattern matches and of the shorter pattern when only that one
\* does; a document without filename and source is in UNKNOWN, whatever the
\* content says.
C23_GroupingRules ==
    Grouped =>
        \A n \in 1..Len(state["retrieved_documents"]) :
            LET doc == state["retrieved_documents"][n]
                filename == FilenameOf(doc)
            IN  /\ HasGrantGroup(doc) => GroupOf(doc) = doc.metadata["grant_group"]
                /\ ~HasGrantGroup(doc) /\ FirstMatch(filename, TRUE) # "" =>
                       GroupOf(doc) = Upper[FirstMatch(filename, TRUE)]
                /\ ~HasGrantGroup(doc) /\ FirstMatch(filename, TRUE) = ""
                       /\ FirstMatch(filename, FALSE) # "" =>
                       GroupOf(doc) = Upper[FirstMatch(filename, FALSE)]
                /\ ~HasGrantGroup(doc) /\ filename = "" => GroupOf(doc) = "UNKNOWN"

\* one call groups a document by its grant_group against its filename, one by
\* the full pattern that matches after a match of the shorter one, and one
\* without filename whose content names a grant
C23_Witness ==
    /\ Grouped
    /\ state["retrieved_documents"] = <<DocWomen, DocHealth, DocBare>>
    /\ Keys(grant_groups) = <<"AMIF-2025-TF2-AG-INTE-01-WOMEN",
                              "AMIF-2025-TF2-AG-INTE-02-HEALTH", "UNKNOWN">>
    /\ Upper[FirstMatch(FilenameOf(DocHealth), FALSE)] = "AMIF-2025-FAQ"
    /\ GrantIdFromFilename(FilenameOf(DocWomen)) = "AMIF-2025-TF2-AG-INTE-05-CHILDREN"

-----------------------------------------------------------------------------
(* The content-keyword fallback of grouping, run on one document whose     *)
(* filename names no grant and whose content is a short text                *)
(* (SpecKeywords).                                                          *)

KeywordWords == {"women", "gender", "Child", "youth", "health", "training", "budget"}

KeywordTexts == {JoinWords[ws] : ws \in ListsUpTo(KeywordWords, MaxWords)}

InitKeywords ==
    /\ state \in {[query |-> "What is the grant budget",
                   retrieved_documents |->
                       << [content |-> t, metadata |-> [filename |-> "notes.pdf"]] >>] :
                      t \in KeywordTexts}
    /\ prev = EmptyDict
    /\ pc = "direct"
    /\ executed = <<>>
    /\ goto = NoGoto
    /\ raised = FALSE
    /\ search_log = <<>>
    /\ llm_calls = 0
    /\ grant_groups = <<>>
    /\ relevant = "none"
    /\ llm_log = <<>>
    /\ index_answers = <<>>
    /\ twin = EmptyDict
    /\ performance_tracker = PerformanceMonitorInit
    /\ requests = <<>>

SpecKeywords == InitKeywords /\ [][CallCrossDocumentDirect]_vars

\* the document reaches the content-keyword fallback of lines 66-91
InFallback(doc) ==
    /\ ~HasGrantGroup(doc)
    /\ FilenameOf(doc) # ""
    /\ FirstMatch(FilenameOf(doc), TRUE) = ""
    /\ FirstMatch(FilenameOf(doc), FALSE) = ""

\* how many keywords of the i-th table entry occur in the uppercased content
KeywordHits(i, doc) ==
    LET content == Upper[Get(doc, "content", "")]
        keywords == grant_keywords[i][2]
    IN  Cardinality({j \in 1..Len(keywords) : Contains[content, keywords[j]]})

\* the entries of the table whose hit count no other entry exceeds
BestEntries(doc) ==
    {i \in 1..Len(grant_keywords) :
         \A j \in 1..Len(grant_keywords) : KeywordHits(j, doc) <= KeywordHits(i, doc)}

\* C24: in the content-keyword fallback the document is in the group of the
\* identifier with the highest keyword-hit count, of the first such
\* identifier in the table's order when several share the maximum, and in
\* UNKNOWN when the best count is zero.
C24_KeywordFallback ==
    Grouped =>
        \A n \in 1..Len(state["retrieved_documents"]) :
            LET doc == state["retrieved_documents"][n]
                first == CHOOSE i \in BestEntries(doc) : \A j \in BestEntries(doc) : i <= j
            IN  InFallback(doc) =>
                    GroupOf(doc) = IF KeywordHits(first, doc) = 0 THEN "UNKNOWN"
                                   ELSE grant_keywords[first][1]

\* a later identifier wins with two hits against one hit of an earlier one
C24_Witness ==
    /\ Grouped
    /\ Len(state["retrieved_documents"]) = 1
    /\ InFallback(state["retrieved_documents"][1])
    /\ KeywordHits(1, state["retrieved_documents"][1]) = 1
    /\ KeywordHits(2, state["retrieved_documents"][1]) = 2
    /\ Keys(grant_groups) = <<"AMIF-2025-TF2-AG-INTE-05-CHILDREN">>

\* two identifiers share the maximum and the first of the table wins
C24_TieWitness ==
    /\ Grouped
    /\ InFallback(state["retrieved_documents"][1])
    /\ BestEntries(state["retrieved_documents"][1]) = {1, 3}
    /\ Keys(grant_groups) = <<"AMIF-2025-TF2-AG-INTE-01-WOMEN">>

\* no keyword occurs and the document is in UNKNOWN
C24_ZeroWitness ==
    /\ Grouped
    /\ InFallback(state["retrieved_documents"][1])
    /\ state["retrieved_documents"][1].content = "budget"
    /\ Keys(grant_groups) = <<"UNKNOWN">>

-----------------------------------------------------------------------------
(* Claims about the order and the inputs of the citation list              *)
(* (SpecTracker).                                                          *)

\* the positions of docs whose deduplication key does not occur earlier
FirstOccurrences(docs) ==
    {i \in 1..Len(docs) : \A j \in 1..(i - 1) : SourceKey(docs[j]) # SourceKey(docs[i])}

\* the k-th smallest member of a set of positions
Nth(positions, k) ==
    CHOOSE i \in positions : Cardinality({j \in positions : j <= i}) = k

\* C25: the citation list is the list of the records of the documents whose
\* key does not occur earlier in the input, in input order.
C25_FirstOccurrenceOrder ==
    Tracked =>
        LET docs == Get(state, "retrieved_documents", <<>>)
            kept == FirstOccurrences(docs)
            sources == state["sources"]
        IN  /\ Len(sources) = Cardinality(kept)
            /\ \A k \in 1..Len(sources) : sources[k] = CitationRecord(docs[Nth(kept, k)])

\* the third document repeats the key of the first and has another record
C25_Witness ==
    /\ Tracked
    /\ Get(state, "retrieved_documents", <<>>) = <<DocNotes, DocHealth, DocWomen>>
    /\ SourceKey(DocNotes) = SourceKey(DocWomen)
    /\ CitationRecord(DocNotes) # CitationRecord(DocWomen)
    /\ state["sources"] = <<CitationRecord(DocNotes), CitationRecord(DocHealth)>>

-----------------------------------------------------------------------------
(* The web application's /search handler under concurrent requests         *)
(* (SpecMonitor): each request runs in a thread of its own and tracks its   *)
(* query under the session id of its cookie.                                *)

\* the session ids the cookies of the requests carry
SessionIds == {"session-a", "session-b"}

\* the query texts of the requests
RequestQueries == {"What is the grant budget", "hello"}

InitMonitor ==
    /\ state = EmptyDict
    /\ prev = EmptyDict
    /\ pc = "serving"
    /\ executed = <<>>
    /\ goto = NoGoto
    /\ raised = FALSE
    /\ search_log = <<>>
    /\ llm_calls = 0
    /\ grant_groups = <<>>
    /\ relevant = "none"
    /\ llm_log = <<>>
    /\ index_answers = <<>>
    /\ twin = EmptyDict
    /\ performance_tracker = PerformanceMonitorInit
    /\ requests = <<>>

\* search() is entered with a non-empty query and a session_id cookie
ReceiveSearch ==
    /\ pc = "serving"
    /\ Len(requests) < MaxRequests
    /\ \E session_id \in SessionIds, query \in RequestQueries :
           requests' = Append(requests, [session_id |-> session_id, query |-> query,
                                         at |-> "received", success |-> TRUE])
    /\ UNCHANGED <<state, prev, pc, executed, goto, raised, search_log, llm_calls,
                   grant_groups, relevant, index_answers, llm_log, twin,
                   performance_tracker>>

\* QueryTracker.__enter__ of request r
EnterQueryTracker ==
    /\ pc = "serving"
    /\ \E r \in 1..Len(requests) :
           /\ requests[r].at = "received"
           /\ performance_tracker' =
                  start_query(performance_tracker, requests[r].session_id, requests[r].query)
           /\ requests' = [requests EXCEPT ![r].at = "tracking"]
    /\ UNCHANGED <<state, prev, pc, executed, goto, raised, search_log, llm_calls,
                   grant_groups, relevant, index_answers, llm_log, twin>>

\* QueryTracker.__exit__ of request r: success is `exc_type is None`
ExitQueryTracker ==
    /\ pc = "serving"
    /\ \E r \in 1..Len(requests), success \in BOOLEAN :
           /\ requests[r].at = "tracking"
           /\ performance_tracker' =
                  end_query(performance_tracker, requests[r].session_id, success)
           /\ requests' = [requests EXCEPT ![r].at = "done", ![r].success = success]
    /\ UNCHANGED <<state, prev, pc, executed, goto, raised, search_log, llm_calls,
                   grant_groups, relevant, index_answers, llm_log, twin>>

NextMonitor == ReceiveSearch \/ EnterQueryTracker \/ ExitQueryTracker

SpecMonitor == InitMonitor /\ [][NextMonitor]_vars

\* the requests at a position of the handler
RequestsAt(at) == {r \in 1..Len(requests) : requests[r].at = at}

\* C29: under every interleaving of start_query and end_query, requests of
\* one session included, total_queries equals successful_queries plus
\* failed_queries plus the number of active queries, and the queries whose
\* end_query has been called are counted once each as successful or failed.
C29_CountersConsistent ==
    LET stats == performance_tracker.stats
    IN  /\ stats.total_queries =
               stats.successful_queries + stats.failed_queries
                   + Cardinality(DOMAIN performance_tracker.active_queries)
        /\ stats.successful_queries =
               Cardinality({r \in RequestsAt("done") : requests[r].success})
        /\ stats.failed_queries =
               Cardinality({r \in RequestsAt("done") : ~requests[r].success})

\* the same statement for requests of pairwise different sessions
C29_DistinctSessionsConsistent ==
    (\A r, q \in 1..Len(requests) : r # q => requests[r].session_id # requests[q].session_id)
        => C29_CountersConsistent

\* two requests of one session are tracked at the same time
C29_SharedIdReached ==
    \E r, q \in RequestsAt("tracking") :
        r # q /\ requests[r].session_id = requests[q].session_id

-----------------------------------------------------------------------------
(* The source tracker called on two request states that hold the same      *)
(* documents and different answers (SpecTrackerPair).                       *)

InitTrackerPair ==
    /\ \E docs \in ListsUpTo(DocUniverse, MaxDocs), a, b \in Answers :
           /\ a # b
           /\ state = [retrieved_documents |-> docs, qa_response |-> a]
           /\ twin = [retrieved_documents |-> docs, qa_response |-> b]
    /\ prev = EmptyDict
    /\ pc = "direct"
    /\ executed = <<>>
    /\ goto = NoGoto
    /\ raised = FALSE
    /\ search_log = <<>>
    /\ llm_calls = 0
    /\ grant_groups = <<>>
    /\ relevant = "none"
    /\ llm_log = <<>>
    /\ index_answers = <<>>
    /\ performance_tracker = PerformanceMonitorInit
    /\ requests = <<>>

\* source_tracker.execute(state) and source_tracker.execute(twin)
CallSourceTrackerOnBoth ==
    /\ pc = "direct"
    /\ executed = <<>>
    /\ state' = SourceTrackerExecute(state)
    /\ twin' = SourceTrackerExecute(twin)
    /\ prev' = state
    /\ executed' = Append(executed, "source_tracker")
    /\ raised' = FALSE
    /\ llm_calls' = 0
    /\ llm_log' = <<>>
    /\ UNCHANGED <<pc, goto, search_log, relevant, grant_groups, index_answers,
                   performance_tracker, requests>>

SpecTrackerPair == InitTrackerPair /\ [][CallSourceTrackerOnBoth]_vars

\* C26: two request states with equal retrieved_documents and different
\* qa_response get equal sources from the source tracker, and each state's
\* cited_response is its own qa_response, unmodified.
C26_CitationsIgnoreAnswer ==
    (Tracked /\ state["retrieved_documents"] = twin["retrieved_documents"]
             /\ state["qa_response"] # twin["qa_response"]) =>
        /\ state["sources"] = twin["sources"]
        /\ state["cited_response"] = state["qa_response"]
        /\ twin["cited_response"] = twin["qa_response"]
        /\ state["qa_response"] = prev["qa_response"]

\* both states were tracked on three documents, one with an empty answer, and
\* carry citations
C26_Witness ==
    /\ Tracked
    /\ Len(state["retrieved_documents"]) = 3
    /\ state["retrieved_documents"] = twin["retrieved_documents"]
    /\ state["qa_response"] = ""
    /\ twin["qa_response"] = "LLM text"
    /\ "sources" \in DOMAIN twin
    /\ state["sources"] = twin["sources"]
    /\ Len(state["sources"]) >= 2

-----------------------------------------------------------------------------
(* The analysis the cross-document step writes in a pipeline run (Spec).   *)

\* the sum of the counts of a list of <<key, count>> pairs
SumCounts[counts \in Any] ==
    IF counts = <<>> THEN 0 ELSE Head(counts)[2] + SumCounts[Tail(counts)]

\* the last step was the cross-document agent, it had documents to work on
\* and it did not leave through its except block
CrossDocumentCompleted ==
    /\ executed # <<>>
    /\ LastExecuted = "cross_document"
    /\ ~raised
    /\ Get(prev, "retrieved_documents", <<>>) # <<>>
    /\ state["cross_document_analysis"] # [analysis |-> "Analiz hatasî: fault"]

\* C27: when the cross-document step completes on a non-empty document list
\* without an internal exception, the counts of grant_groups are all at least
\* 1 and sum to the number of retrieved documents, total_grants_analyzed is
\* the number of keys of grant_groups, and cross_document_insights is the
\* number of entries of relationships.common_themes.
C27_AnalysisConsistent ==
    CrossDocumentCompleted =>
        LET analysis == state["cross_document_analysis"]
        IN  /\ {"grant_groups", "total_grants_analyzed", "cross_document_insights",
                "relationships"} \subseteq DOMAIN analysis
            /\ \A i \in 1..Len(analysis["grant_groups"]) : analysis["grant_groups"][i][2] >= 1
            /\ \A i, j \in 1..Len(analysis["grant_groups"]) :
                   i # j => analysis["grant_groups"][i][1] # analysis["grant_groups"][j][1]
            /\ SumCounts[analysis["grant_groups"]] = Len(state["retrieved_documents"])
            /\ analysis["total_grants_analyzed"] = Len(analysis["grant_groups"])
            /\ analysis["cross_document_insights"] =
                   Len(analysis["relationships"]["common_themes"])

\* three documents in three groups with a common theme
C27_Witness ==
    /\ CrossDocumentCompleted
    /\ Len(state["retrieved_documents"]) = 3
    /\ state["cross_document_analysis"]["total_grants_analyzed"] = 3
    /\ state["cross_document_analysis"]["cross_document_insights"] >= 1

\* one group that holds two documents
C27_SharedGroupWitness ==
    /\ CrossDocumentCompleted
    /\ Len(state["retrieved_documents"]) = 2
    /\ state["cross_document_analysis"]["grant_groups"]
           = << <<"AMIF-2025-TF2-AG-INTE-01-WOMEN", 2>> >>

-----------------------------------------------------------------------------
(* The state manager's completion test against the supervisor's routing    *)
(* (SpecSupervisor).                                                       *)

\* the state is one that initialize_state returns
FreshState == state \in {initialize_state(q) : q \in Queries}

\* C28: for every combination of the four flags is_workflow_complete is true
\* exactly when the supervisor routes to __end__, and a state that
\* initialize_state has just created has the four flags false and is routed
\* to document_retriever.
C28_CompletionAgrees ==
    goto # NoGoto =>
        /\ Flags \subseteq DOMAIN state =>
               (is_workflow_complete(state) <=> goto = "__end__")
        /\ FreshState =>
               /\ \A flag \in Flags : flag \in DOMAIN state /\ state[flag] = FALSE
               /\ goto = "document_retriever"

\* all flags but the cross-document one are set: not complete, not ended
C28_Witness ==
    /\ goto = "cross_document"
    /\ DOMAIN state = Flags
    /\ state["retrieval_performed"] /\ state["qa_performed"]
    /\ state["source_tracking_performed"]
    /\ ~is_workflow_complete(state)

\* a fresh state was routed
C28_FreshWitness == goto = "document_retriever" /\ FreshState

\* a complete state was ended
C28_EndWitness == goto = "__end__" /\ DOMAIN state = Flags /\ is_workflow_complete(state)

-----------------------------------------------------------------------------
(* The source tracker on chunks of one file whose page metadata differs:   *)
(* missing, empty, zero, None, and a page given as int or as str            *)
(* (SpecPages).                                                             *)

\* the page metadata a chunk may carry
PageMetadata ==
    {EmptyDict, [page_number |-> PyStr("")], [page_number |-> PyInt(0)],
     [page |-> PyInt(0)], [page_number |-> PyNone], [page_number |-> PyInt(1)],
     [page_number |-> PyStr("1")]}

\* chunks of the file data/raw/calls.pdf
PageDocs ==
    {[content |-> "Eligibility criteria.",
      metadata |-> [source |-> "data/raw/calls.pdf"] @@ m] : m \in PageMetadata}

InitPages ==
    /\ state \in {[retrieved_documents |-> docs, qa_response |-> "LLM text"] :
                      docs \in ListsUpTo(PageDocs, MaxDocs)}
    /\ prev = EmptyDict
    /\ pc = "direct"
    /\ executed = <<>>
    /\ goto = NoGoto
    /\ raised = FALSE
    /\ search_log = <<>>
    /\ llm_calls = 0
    /\ grant_groups = <<>>
    /\ relevant = "none"
    /\ llm_log = <<>>
    /\ index_answers = <<>>
    /\ twin = EmptyDict
    /\ performance_tracker = PerformanceMonitorInit
    /\ requests = <<>>

SpecPages == InitPages /\ [][CallSourceTrackerDirect]_vars

\* C30: any two citation records of the list differ in clean_source or in
\* the page display string, also for documents whose page number is
\* missing, empty or zero.
C30_DistinctCitations ==
    Tracked =>
        \A i, j \in 1..Len(state["sources"]) :
            i # j => \/ state["sources"][i].clean_source # state["sources"][j].clean_source
                     \/ state["sources"][i].page # state["sources"][j].page

\* what the deduplication does give: records of documents with different keys
C30_DistinctKeys ==
    Tracked =>
        Len(state["sources"])
            = Cardinality({SourceKey(d) : d \in Range(Get(state, "retrieved_documents", <<>>))})

\* a chunk without page number and a chunk of page 0 are both cited
C30_SameDisplayReached ==
    /\ Tracked
    /\ Len(state["sources"]) = 2
    /\ state["sources"][1].page = "Sayfa bilinmiyor"
    /\ state["sources"][2] = state["sources"][1]

=============================================================================
